---- MODULE Spec2Model ----
(***************************************************************************)
(* Gmail-CalendarAgent: the agent tool-calling loop (GmailAgent and        *)
(* CalendarAgent.process_request), the delegation router                   *)
(* (ConversationalOrchestrator._should_delegate) and the conversation      *)
(* state machine (orchestrator_node, delegation_node, should_continue,     *)
(* build_graph, chat).                                                     *)
(*                                                                         *)
(* A text is a sequence of strings.  A user message and a trigger phrase   *)
(* are sequences of one-character strings, so that lower-casing and the    *)
(* substring test of the router are computed character by character; an    *)
(* f-string is the concatenation of its pieces.                            *)
(***************************************************************************)
EXTENDS Integers, Sequences, FiniteSets, TLC

VARIABLES
    now,                \* the wall clock read by datetime.now()
    agents,             \* agent name -> [system_prompt, tools] (the agent objects)
    pc,                 \* position of process_request: idle, invoke, check, tools, returned, raised
    caller,             \* who called process_request: none, direct, delegate
    cur_agent,          \* the agent whose process_request is running
    request,            \* process_request's parameter `request`
    messages,           \* process_request's local list `messages`
    iteration,          \* process_request's local `iteration`
    response,           \* process_request's local `response`
    tc_idx,             \* position of the for loop in response.tool_calls
    result,             \* the value process_request returned
    exc,                \* the exception that left process_request
    model_calls,        \* history: model invocations of the running call
    model_input,        \* history: the list handed to the last model invocation
    tool_log,           \* history: the tool invocations of the running call, in order
    prompt_built_in_call, \* history: the system content was built inside this call
    sub_agents,         \* ConversationalOrchestrator.sub_agents, in insertion order
    graph,              \* ConversationalOrchestrator.graph: built flag and delegate nodes
    memory,             \* MemorySaver: thread id -> persisted OrchestrationState
    node,               \* position of chat: idle, orchestrator, delegate_<name>, END
    state,              \* the OrchestrationState of the running turn
    cur_thread,         \* thread id of the running turn
    cur_input,          \* the message given to the running chat call
    answer,             \* what the last chat call returned
    chat_exc,           \* the exception that left the last chat call
    turns,              \* history: number of chat calls made
    orch_model_calls,   \* history: orchestrator model invocations of the running turn
    orch_model_input,   \* history: the list handed to the orchestrator's model
    delegations,        \* history: process_request calls made by the running turn
    turn_start,         \* history: the thread's persisted messages when chat was called
    session,            \* position of start_chat: off, input, chat, ended
    thread_id,          \* start_chat's parameter `thread_id`
    user_input,         \* start_chat's local `user_input`
    printed,            \* history: what start_chat printed, in order
    completed,          \* history: the thread's persisted messages when the last
                        \* turn of the session completed
    stdin,              \* the standard input input() reads: open, or closed (at end of input)
    route_in,           \* router alone: the message given to _should_delegate
    route_out,          \* router alone: what _should_delegate returned last
    files,              \* the project root: token.json, calendar_token.json, credentials.json
    main_pc,            \* position of run_chat_bot
    main_exc            \* the exception that left run_chat_bot

agentVars ==
    <<pc, caller, cur_agent, request, messages, iteration, response, tc_idx, result, exc,
      model_calls, model_input, tool_log, prompt_built_in_call>>

orchVars ==
    <<graph, memory, node, state, cur_thread, cur_input, answer, chat_exc, turns,
      orch_model_calls, orch_model_input, delegations, turn_start>>

routeVars ==
    <<route_in, route_out>>

sessionVars ==
    <<session, thread_id, user_input, printed, completed, stdin>>

mainVars ==
    <<files, main_pc, main_exc>>

vars ==
    <<now, agents, agentVars, sub_agents, orchVars, routeVars, sessionVars, mainVars>>

----------------------------------------------------------------------------
(* Bounds of the model *)

\* ToolCalls the model may emit, over all its responses, in one directly called
\* request
MaxToolCalls ==
    3

\* the same bound for a request made by a delegation node
MaxDelegToolCalls ==
    1

\* minutes the clock may advance
MaxClock ==
    1

\* chat calls
MaxTurns ==
    2

\* router alone: length of a message, triggers of one sub-agent
MaxMsgLen ==
    3

MaxTriggers ==
    2

\* ToolCalls of apply_email_label the model may emit in one request
MaxLabelCalls ==
    2

\* add_tool calls a program makes on one agent after its factory returned
MaxAddTools ==
    2

\* ToolCalls of get_email_content the model may emit in one request
MaxGetCalls ==
    2

\* input() calls of one session that fail
MaxReadFailures ==
    2

----------------------------------------------------------------------------
(* Texts *)

None ==
    <<"None">>

UpperCase ==
    <<"A", "B", "C", "D", "E", "F", "G", "H", "I", "J", "K", "L", "M",
      "N", "O", "P", "Q", "R", "S", "T", "U", "V", "W", "X", "Y", "Z">>

LowerCase ==
    <<"a", "b", "c", "d", "e", "f", "g", "h", "i", "j", "k", "l", "m",
      "n", "o", "p", "q", "r", "s", "t", "u", "v", "w", "x", "y", "z">>

\* str.lower() of one character
LowerChar(c) ==
    IF \E i \in 1..26 : UpperCase[i] = c
    THEN LowerCase[CHOOSE i \in 1..26 : UpperCase[i] = c]
    ELSE c

\* str.lower()
lower(s) ==
    [i \in 1..Len(s) |-> LowerChar(s[i])]

\* a variant: `s.startswith(t)`
contains_at_start(s, t) ==
    Len(t) <= Len(s) /\ SubSeq(s, 1, Len(t)) = t

\* the operator `in` of two strings: t is a substring of s
contains(s, t) ==
    \E k \in 0..(Len(s) - Len(t)) : SubSeq(s, k + 1, k + Len(t)) = t

\* str.title() of a sub-agent name
title(name) ==
    CASE name = "gmail" -> "Gmail"
      [] name = "calendar" -> "Calendar"
      [] name = "trivia" -> "Trivia"
      [] OTHER -> name

gmail_triggers ==
    <<<<"e", "m", "a", "i", "l">>,
      <<"g", "m", "a", "i", "l">>,
      <<"d", "r", "a", "f", "t">>,
      <<"c", "o", "m", "p", "o", "s", "e">>,
      <<"s", "e", "n", "d", " ", "m", "a", "i", "l">>,
      <<"s", "e", "a", "r", "c", "h", " ", "m", "a", "i", "l">>,
      <<"s", "e", "a", "r", "c", "h", " ", "e", "m", "a", "i", "l">>,
      <<"l", "a", "b", "e", "l", " ", "e", "m", "a", "i", "l">>,
      <<"c", "a", "t", "e", "g", "o", "r", "i", "z", "e", " ", "e", "m", "a", "i", "l">>,
      <<"o", "r", "g", "a", "n", "i", "z", "e", " ", "e", "m", "a", "i", "l">>,
      <<"f", "i", "n", "d", " ", "e", "m", "a", "i", "l">>>>
calendar_triggers ==
    <<<<"c", "a", "l", "e", "n", "d", "a", "r">>,
      <<"m", "e", "e", "t", "i", "n", "g">>,
      <<"a", "p", "p", "o", "i", "n", "t", "m", "e", "n", "t">>,
      <<"e", "v", "e", "n", "t">>,
      <<"s", "c", "h", "e", "d", "u", "l", "e">>,
      <<"b", "o", "o", "k", " ", "t", "i", "m", "e">>,
      <<"s", "e", "t", " ", "u", "p", " ", "m", "e", "e", "t", "i", "n", "g">>,
      <<"c", "r", "e", "a", "t", "e", " ", "e", "v", "e", "n", "t">>,
      <<"a", "d", "d", " ", "t", "o", " ", "c", "a", "l", "e", "n", "d", "a", "r">>,
      <<"c", "h", "e", "c", "k", " ", "c", "a", "l", "e", "n", "d", "a", "r">>,
      <<"f", "r", "e", "e", " ", "t", "i", "m", "e">>,
      <<"a", "v", "a", "i", "l", "a", "b", "i", "l", "i", "t", "y">>,
      <<"b", "u", "s", "y">>,
      <<"r", "e", "s", "c", "h", "e", "d", "u", "l", "e">>,
      <<"c", "a", "n", "c", "e", "l", " ", "m", "e", "e", "t", "i", "n", "g">>,
      <<"u", "p", "d", "a", "t", "e", " ", "e", "v", "e", "n", "t">>,
      <<"f", "i", "n", "d", " ", "m", "e", "e", "t", "i", "n", "g", "s">>,
      <<"t", "e", "a", "m", " ", "s", "t", "a", "n", "d", "u", "p">>,
      <<"r", "e", "c", "u", "r", "r", "i", "n", "g", " ", "m", "e", "e", "t", "i", "n", "g">>,
      <<"a", "l", "l", "-", "d", "a", "y", " ", "e", "v", "e", "n", "t">>>>
\* "Create a meeting called Team Standup tomorrow at 10am for 30 minutes"
ScenarioA ==
    <<"C", "r", "e", "a", "t", "e", " ", "a", " ", "m", "e", "e", "t", "i", "n",
      "g", " ", "c", "a", "l", "l", "e", "d", " ", "T", "e", "a", "m", " ", "S",
      "t", "a", "n", "d", "u", "p", " ", "t", "o", "m", "o", "r", "r", "o", "w",
      " ", "a", "t", " ", "1", "0", "a", "m", " ", "f", "o", "r", " ", "3", "0",
      " ", "m", "i", "n", "u", "t", "e", "s">>
\* "What's the capital of France?"
ScenarioB ==
    <<"W", "h", "a", "t", "'", "s", " ", "t", "h", "e", " ", "c", "a", "p", "i",
      "t", "a", "l", " ", "o", "f", " ", "F", "r", "a", "n", "c", "e", "?">>
\* "Draft an Email about the meeting"
DraftRequest ==
    <<"D", "r", "a", "f", "t", " ", "a", "n", " ", "E", "m", "a", "i", "l", " ",
      "a", "b", "o", "u", "t", " ", "t", "h", "e", " ", "m", "e", "e", "t", "i",
      "n", "g">>


----------------------------------------------------------------------------
(* Messages (langchain_core.messages) *)

NoId ==
    0

Msg(role, content, tool_calls, tool_call_id) ==
    [role |-> role, content |-> content, tool_calls |-> tool_calls,
     tool_call_id |-> tool_call_id]

SystemMessage(content) ==
    Msg("system", content, <<>>, NoId)

HumanMessage(content) ==
    Msg("human", content, <<>>, NoId)

AIMessage(content, tool_calls) ==
    Msg("ai", content, tool_calls, NoId)

ToolMessage(content, tool_call_id) ==
    Msg("tool", content, <<>>, tool_call_id)

NoMessage ==
    Msg("none", <<>>, <<>>, NoId)

\* Optional[str] of a sub-agent name: None
NoAgent ==
    "<None>"

\* the positions of chat: not running, in a node of the graph, at END
NodeIdle ==
    <<"idle">>

NodeOrchestrator ==
    <<"orchestrator">>

NodeEnd ==
    <<"END">>

ToolCall(name, id) ==
    [name |-> name, id |-> id]

----------------------------------------------------------------------------
(* The agents: src/agents/gmail_agent.py and src/agents/calendar_agent.py *)

AgentNames ==
    {"gmail", "calendar"}

\* datetime.now().strftime("%A, %B %d, %Y at %I:%M %p"): one text per minute
strftime(t) ==
    <<"minute ", ToString(t)>>

\* _get_system_prompt() of the two agent modules, called at clock value t
get_system_prompt(a, t) ==
    IF a = "gmail"
    THEN <<"You are a helpful Gmail assistant specialized in email management and organization.">>
    ELSE <<"You are a helpful Google Calendar assistant specialized in managing calendar events.",
           "Current date and time: ">> \o strftime(t)

\* the tool names the text of _get_system_prompt() tells the model to use
\* (gmail_agent.py 55-67, calendar_agent.py 59-75)
prompt_tool_names(a) ==
    IF a = "gmail"
    THEN {"draft_email", "search_emails", "get_email_content", "apply_email_label"}
    ELSE {"create_calendar_event", "search_calendar_events", "get_calendar_event",
          "update_calendar_event", "delete_calendar_event"}

\* the tools create_gmail_tools and create_calendar_tools return, in order
created_tools(a) ==
    IF a = "gmail"
    THEN <<"create_gmail_draft", "search_emails", "get_email_content", "apply_email_label">>
    ELSE <<"create_calendar_event", "search_calendar_events", "update_calendar_event",
           "delete_calendar_event", "get_calendar_event">>

\* add_tool: self.tools.append(tool)
add_tool(tools, tool) ==
    Append(tools, tool)

RECURSIVE add_tools(_, _)
add_tools(tools, new) ==
    IF new = <<>> THEN tools
    ELSE add_tools(add_tool(tools, Head(new)), Tail(new))

\* create_gmail_agent / create_calendar_agent at clock value t:
\* __init__ stores _get_system_prompt() and an empty tool list, then add_tool per tool
create_agent(a, t) ==
    [system_prompt |-> get_system_prompt(a, t),
     tools |-> add_tools(<<>>, created_tools(a))]

\* next((t for t in self.tools if t.name == tool_call["name"]), None):
\* the index of the first tool of that name, 0 for None
resolve_tool(tools, name) ==
    IF \E i \in 1..Len(tools) : tools[i] = name
    THEN CHOOSE i \in 1..Len(tools) :
            tools[i] = name /\ \A j \in 1..(i - 1) : tools[j] # name
    ELSE 0

\* a variant: both agents use the prompt stored by __init__
seed_system_content_stored(a, t) ==
    agents[a].system_prompt

\* the system content process_request puts first in `messages`:
\* GmailAgent uses self.system_prompt, CalendarAgent calls _get_system_prompt()
seed_system_content(a, t) ==
    IF a = "gmail" THEN agents[a].system_prompt ELSE get_system_prompt(a, t)

\* whether process_request calls _get_system_prompt() itself
seed_builds_prompt(a) ==
    a # "gmail"

\* messages = [{"role": "system", ...}, HumanMessage(content=request)]
seed_history(a, req, t) ==
    <<SystemMessage(seed_system_content(a, t)), HumanMessage(req)>>

\* a variant: the loop gives up after two iterations
while_condition_capped(iter) ==
    iter < 2

\* `while True:`
while_condition(iter) ==
    TRUE

\* `hasattr(response, "tool_calls") and response.tool_calls`
has_tool_calls(resp) ==
    resp.tool_calls # <<>>

\* a variant: no try/except around tool.invoke
tool_exception_not_caught ==
    FALSE

\* `except Exception as e:` around tool.invoke
tool_exception_caught ==
    TRUE

\* a variant: the Tool message does not carry the ToolCall's id
tool_result_message_no_id(tool_output, tool_call) ==
    ToolMessage(tool_output, NoId)

\* ToolMessage(content=str(tool_output), tool_call_id=tool_call["id"])
tool_result_message(tool_output, tool_call) ==
    ToolMessage(tool_output, tool_call.id)

\* ToolMessage(content=f"Tool execution error: {str(e)}", tool_call_id=tool_call["id"])
tool_error_message(e, tool_call) ==
    ToolMessage(<<"Tool execution error: ">> \o e, tool_call.id)

\* a variant: `return str(response)`
return_value_whole_message(resp) ==
    <<"content='">> \o resp.content \o <<"'">>

\* `return response.content`
return_value(resp) ==
    resp.content

----------------------------------------------------------------------------
(* What the environment may answer: the model, the tools, the user *)

\* the requests a user makes
UserMessages ==
    {ScenarioA, ScenarioB, DraftRequest}

\* the content of a model response that carries no ToolCalls
ModelTexts ==
    {<<"Done.">>, <<"All set.">>}

\* the tool names the model puts in a ToolCall: one the agent registered and one
\* it did not ('draft_email' is the name the Gmail prompt gives the draft tool)
model_tool_names(a) ==
    IF a = "gmail" THEN {"search_emails", "draft_email"}
    ELSE {"create_calendar_event", "check_availability"}

ToolOutputs ==
    {<<"ok">>}

ToolErrors ==
    {<<"validation error">>}

ModelErrors ==
    {<<"connection refused">>}

ToolCallsBound ==
    IF caller = "delegate" THEN MaxDelegToolCalls ELSE MaxToolCalls

\* the ToolCalls the AI messages of a history carry
RECURSIVE emitted_calls(_)
emitted_calls(msgs) ==
    IF msgs = <<>> THEN 0
    ELSE Len(Head(msgs).tool_calls) + emitted_calls(Tail(msgs))

\* the sequences of 1..n tool names over S
RECURSIVE NameSeqs(_, _)
NameSeqs(S, n) ==
    IF n = 0 THEN {}
    ELSE LET shorter == NameSeqs(S, n - 1)
         IN  {<<x>> : x \in S} \cup shorter
               \cup {Append(s, x) : s \in shorter, x \in S}

\* the ToolCalls of a response: ids not used before in the request
tool_calls_of(names, used) ==
    [j \in 1..Len(names) |-> ToolCall(names[j], used + j)]

----------------------------------------------------------------------------
(* process_request: gmail_agent.py 104-141, calendar_agent.py 111-145 *)

IdleFrame ==
    /\ pc' = "idle"
    /\ caller' = "none"
    /\ cur_agent' = "none"
    /\ request' = None
    /\ messages' = <<>>
    /\ iteration' = 0
    /\ response' = NoMessage
    /\ tc_idx' = 0
    /\ result' = None
    /\ exc' = None
    /\ model_calls' = 0
    /\ model_input' = <<>>
    /\ tool_log' = <<>>
    /\ prompt_built_in_call' = FALSE

\* where control is at the top of `while True:`
loop_top(iter) ==
    IF while_condition(iter) THEN "invoke" ELSE "returned"

\* the call itself: seed the history, reach the top of the loop
process_request(a, req, who) ==
    /\ pc' = loop_top(0)
    /\ caller' = who
    /\ cur_agent' = a
    /\ request' = req
    /\ messages' = seed_history(a, req, now)
    /\ iteration' = 0
    /\ response' = NoMessage
    /\ tc_idx' = 0
    /\ result' = None
    /\ exc' = None
    /\ model_calls' = 0
    /\ model_input' = <<>>
    /\ tool_log' = <<>>
    /\ prompt_built_in_call' = seed_builds_prompt(a)

\* response = self.invoke(messages); messages.append(response): the model answers
\* with ToolCalls
ModelReturnsToolCalls ==
    /\ pc = "invoke"
    /\ \E names \in NameSeqs(model_tool_names(cur_agent),
                            ToolCallsBound - emitted_calls(messages)) :
          /\ response' = AIMessage(<<>>, tool_calls_of(names, emitted_calls(messages)))
          /\ messages' = Append(messages, response')
    /\ iteration' = iteration + 1
    /\ model_calls' = model_calls + 1
    /\ model_input' = messages
    /\ pc' = "check"
    /\ UNCHANGED <<caller, cur_agent, request, tc_idx, result, exc, tool_log, prompt_built_in_call>>
    /\ UNCHANGED <<now, agents, sub_agents, orchVars, routeVars, sessionVars, mainVars>>

\* the model answers with text only
ModelReturnsText ==
    /\ pc = "invoke"
    /\ \E text \in ModelTexts :
          /\ response' = AIMessage(text, <<>>)
          /\ messages' = Append(messages, response')
    /\ iteration' = iteration + 1
    /\ model_calls' = model_calls + 1
    /\ model_input' = messages
    /\ pc' = "check"
    /\ UNCHANGED <<caller, cur_agent, request, tc_idx, result, exc, tool_log, prompt_built_in_call>>
    /\ UNCHANGED <<now, agents, sub_agents, orchVars, routeVars, sessionVars, mainVars>>

\* self.model.invoke raises: nothing in process_request catches it
ModelRaises ==
    /\ pc = "invoke"
    /\ \E e \in ModelErrors : exc' = e
    /\ iteration' = iteration + 1
    /\ model_calls' = model_calls + 1
    /\ model_input' = messages
    /\ pc' = "raised"
    /\ UNCHANGED <<caller, cur_agent, request, messages, response, tc_idx, result, tool_log,
                   prompt_built_in_call>>
    /\ UNCHANGED <<now, agents, sub_agents, orchVars, routeVars, sessionVars, mainVars>>

\* `if hasattr(response, "tool_calls") and response.tool_calls: ... else: return`
CheckResponse ==
    /\ pc = "check"
    /\ IF has_tool_calls(response)
       THEN /\ pc' = "tools"
            /\ tc_idx' = 1
            /\ result' = result
       ELSE /\ pc' = "returned"
            /\ tc_idx' = tc_idx
            /\ result' = return_value(response)
    /\ UNCHANGED <<caller, cur_agent, request, messages, iteration, response, exc, model_calls,
                   model_input, tool_log, prompt_built_in_call>>
    /\ UNCHANGED <<now, agents, sub_agents, orchVars, routeVars, sessionVars, mainVars>>

cur_tool_call ==
    response.tool_calls[tc_idx]

cur_tool ==
    resolve_tool(agents[cur_agent].tools, cur_tool_call.name)

\* the for loop moves to the next ToolCall, or back to the top of the while loop
NextToolCall ==
    /\ tc_idx' = tc_idx + 1
    /\ IF tc_idx < Len(response.tool_calls)
       THEN pc' = "tools" /\ result' = result
       ELSE pc' = loop_top(iteration) /\ result' = None

\* `if tool:` is false: the body of the for loop does nothing for this ToolCall
ToolNotFound ==
    /\ pc = "tools"
    /\ cur_tool = 0
    /\ NextToolCall
    /\ UNCHANGED <<caller, cur_agent, request, messages, iteration, response, exc, model_calls,
                   model_input, tool_log, prompt_built_in_call>>
    /\ UNCHANGED <<now, agents, sub_agents, orchVars, routeVars, sessionVars, mainVars>>

\* tool.invoke(tool_call["args"]) returns
ToolReturns ==
    /\ pc = "tools"
    /\ cur_tool # 0
    /\ \E out \in ToolOutputs :
          /\ messages' = Append(messages, tool_result_message(out, cur_tool_call))
          /\ tool_log' = Append(tool_log,
                [id |-> cur_tool_call.id, tool |-> agents[cur_agent].tools[cur_tool],
                 outcome |-> "returned", text |-> out])
    /\ NextToolCall
    /\ UNCHANGED <<caller, cur_agent, request, iteration, response, exc, model_calls,
                   model_input, prompt_built_in_call>>
    /\ UNCHANGED <<now, agents, sub_agents, orchVars, routeVars, sessionVars, mainVars>>

\* tool.invoke(tool_call["args"]) raises an Exception
ToolRaises ==
    /\ pc = "tools"
    /\ cur_tool # 0
    /\ \E e \in ToolErrors :
          /\ tool_log' = Append(tool_log,
                [id |-> cur_tool_call.id, tool |-> agents[cur_agent].tools[cur_tool],
                 outcome |-> "raised", text |-> e])
          /\ IF tool_exception_caught
             THEN /\ messages' = Append(messages, tool_error_message(e, cur_tool_call))
                  /\ exc' = exc
                  /\ NextToolCall
             ELSE /\ messages' = messages
                  /\ exc' = e
                  /\ pc' = "raised"
                  /\ tc_idx' = tc_idx
                  /\ result' = result
    /\ UNCHANGED <<caller, cur_agent, request, iteration, response, model_calls,
                   model_input, prompt_built_in_call>>
    /\ UNCHANGED <<now, agents, sub_agents, orchVars, routeVars, sessionVars, mainVars>>

AgentStep ==
    \/ ModelReturnsToolCalls
    \/ ModelReturnsText
    \/ ModelRaises
    \/ CheckResponse
    \/ ToolNotFound
    \/ ToolReturns
    \/ ToolRaises

----------------------------------------------------------------------------
(* The label tool: src/tools/gmail_tools.py 11-22, 37-47, 98-115, 184-223 *)

DEFAULT_LABELS ==
    <<<<"S", "p", "a", "m">>,
      <<"N", "e", "w", "s">>,
      <<"U", "n", "i", "v", "e", "r", "s", "i", "t", "y">>,
      <<"F", "i", "n", "a", "n", "c", "i", "a", "l">>,
      <<"P", "e", "r", "s", "o", "n", "a", "l">>,
      <<"W", "o", "r", "k">>,
      <<"P", "r", "o", "m", "o", "t", "i", "o", "n", "s">>,
      <<"M", "e", "e", "t", "i", "n", "g">>,
      <<"O", "t", "h", "e", "r">>>>

\* GmailToolkit.__init__: `allowed_labels or DEFAULT_LABELS`, with the None that
\* create_gmail_tools(credentials) passes
allowed_labels ==
    DEFAULT_LABELS

\* ', '.join(labels)
RECURSIVE join(_)
join(labels) ==
    IF labels = <<>> THEN <<>>
    ELSE IF Len(labels) = 1 THEN Head(labels)
    ELSE Head(labels) \o <<",", " ">> \o join(Tail(labels))

\* a variant: a label that starts with an allowed label is let through
label_allowed_by_prefix(allowed, label) ==
    \E i \in 1..Len(allowed) : contains_at_start(lower(label), lower(allowed[i]))

\* `label.lower() in [l.lower() for l in self.allowed_labels]`
label_allowed(allowed, label) ==
    \E i \in 1..Len(allowed) : lower(allowed[i]) = lower(label)

\* the text _run returns for a label that is not allowed (203)
not_allowed_text(allowed, label) ==
    <<"Error: '">> \o label \o <<"' is not an allowed label. Allowed labels are: ">>
        \o join(allowed)

\* the text _run returns when get_label_id gave None (209)
not_found_text(label) ==
    <<"Error: Label '">> \o label
        \o <<"' not found in Gmail. Please ensure it exists in your Gmail account.">>

\* the text _run returns after messages().modify (220)
applied_text(label, email_id) ==
    <<"Successfully applied label '">> \o label \o <<"' to email ">> \o email_id

\* the failures messages().modify may end in: an HttpError with status 404, 403
\* or another one, or an exception that is no HttpError
ApiFailures ==
    {"404", "403", "http", "other"}

\* _handle_error(error, context)
handle_error(failure, context) ==
    CASE failure = "404" -> <<"Error: Resource not found in ">> \o context
      [] failure = "403" -> <<"Error: Permission denied for ">> \o context
      [] failure = "http" -> <<"API Error in ">> \o context \o <<": ", "HttpError">>
      [] failure = "TypeError" ->
            <<"Error in ">> \o context
              \o <<": ", "_parse_email() takes 2 positional arguments but 3 were given">>
      [] OTHER -> <<"Error in ">> \o context \o <<": ", "timed out">>

\* what the Gmail service does during one _run: labels().list fails, or the
\* label is not among the account's labels, or it is and messages().modify
\* succeeds or ends in one of the failures
GmailOutcomes ==
    {<<"list fails">>, <<"label missing">>, <<"applied">>}
        \cup {<<"modify fails", f>> : f \in ApiFailures}

\* GmailApplyLabelTool._run(email_id, label) with the service behaving as `gmail`:
\* the text returned and the remote calls made, in order
apply_email_label(email_id, label, gmail) ==
    IF ~ label_allowed(allowed_labels, label)
    THEN [text |-> not_allowed_text(allowed_labels, label), remote |-> <<>>]
    ELSE IF gmail[1] \in {"list fails", "label missing"}
    THEN [text |-> not_found_text(label), remote |-> <<"labels.list">>]
    ELSE IF gmail[1] = "modify fails"
    THEN [text |-> handle_error(gmail[2], <<"applying label to email ">> \o email_id),
          remote |-> <<"labels.list", "messages.modify">>]
    ELSE [text |-> applied_text(label, email_id),
          remote |-> <<"labels.list", "messages.modify">>]

\* the labels the model asks for: two the default set does not hold, two it
\* holds in another case
ModelLabels ==
    {<<"U", "r", "g", "e", "n", "t">>, <<"W", "o", "r", "k", "s">>,
     <<"w", "o", "r", "k">>, <<"S", "P", "A", "M">>}

ModelEmailIds ==
    {<<"18c7f8a5b2d3e4f5">>}

\* "Label my emails"
LabelTask ==
    <<"L", "a", "b", "e", "l", " ", "m", "y", " ", "e", "m", "a", "i", "l", "s">>

\* a program asks the Gmail agent to label emails
LabelRequest ==
    /\ pc = "idle"
    /\ node = NodeIdle
    /\ process_request("gmail", LabelTask, "direct")
    /\ UNCHANGED <<now, agents, sub_agents, orchVars, routeVars, sessionVars, mainVars>>

\* a ToolCall of apply_email_label with its arguments
LabelToolCall(email_id, label, id) ==
    [name |-> "apply_email_label", id |-> id,
     args |-> [email_id |-> email_id, label |-> label]]

\* the model of the Gmail agent answers with ToolCalls of apply_email_label
ModelReturnsLabelCalls ==
    /\ pc = "invoke"
    /\ cur_agent = "gmail"
    /\ \E labels \in NameSeqs(ModelLabels, MaxLabelCalls - emitted_calls(messages)) :
       \E email_id \in ModelEmailIds :
          /\ response' = AIMessage(<<>>,
                [j \in 1..Len(labels) |->
                    LabelToolCall(email_id, labels[j], emitted_calls(messages) + j)])
          /\ messages' = Append(messages, response')
    /\ iteration' = iteration + 1
    /\ model_calls' = model_calls + 1
    /\ model_input' = messages
    /\ pc' = "check"
    /\ UNCHANGED <<caller, cur_agent, request, tc_idx, result, exc, tool_log, prompt_built_in_call>>
    /\ UNCHANGED <<now, agents, sub_agents, orchVars, routeVars, sessionVars, mainVars>>

\* tool.invoke(tool_call["args"]) of apply_email_label: _run catches what the
\* service raises and returns a text in every case
ApplyLabelRuns ==
    /\ pc = "tools"
    /\ cur_tool # 0
    /\ agents[cur_agent].tools[cur_tool] = "apply_email_label"
    /\ \E gmail \in GmailOutcomes :
          LET ran == apply_email_label(cur_tool_call.args.email_id,
                                       cur_tool_call.args.label, gmail)
          IN  /\ messages' = Append(messages, tool_result_message(ran.text, cur_tool_call))
              /\ tool_log' = Append(tool_log,
                    [id |-> cur_tool_call.id, tool |-> "apply_email_label",
                     outcome |-> "returned", text |-> ran.text,
                     label |-> cur_tool_call.args.label, remote |-> ran.remote])
    /\ NextToolCall
    /\ UNCHANGED <<caller, cur_agent, request, iteration, response, exc, model_calls,
                   model_input, prompt_built_in_call>>
    /\ UNCHANGED <<now, agents, sub_agents, orchVars, routeVars, sessionVars, mainVars>>

----------------------------------------------------------------------------
(* The tool that reads an email: src/tools/gmail_tools.py 283-337 *)

\* `def _parse_email(self, message)` (295): the parameters after self
parse_email_parameters ==
    <<"message">>

\* `self._parse_email(message, include_body)` (322): the arguments of the call
parse_email_arguments ==
    <<"message", "include_body">>

\* the body of _parse_email (297-312): the headers and the body of the message
parse_email(message) ==
    [id |-> message.id, subject |-> message.subject, from |-> message.from,
     to |-> message.to, date |-> message.date, body |-> message.body]

\* the call of _parse_email as _run writes it: Python binds the arguments to the
\* parameters before the body runs and raises TypeError when they do not fit
parse_email_call(message) ==
    IF Len(parse_email_arguments) = Len(parse_email_parameters)
    THEN [exc |-> "none", email_data |-> parse_email(message)]
    ELSE [exc |-> "TypeError", email_data |-> None]

\* the text _run builds from email_data (325-334)
email_text(email_data, include_body) ==
    <<"Email ID: ">> \o email_data.id \o <<"\n", "From: ">> \o email_data.from
      \o <<"\n", "To: ">> \o email_data.to
      \o <<"\n", "Subject: ">> \o email_data.subject
      \o <<"\n", "Date: ">> \o email_data.date \o <<"\n">>
      \o (IF include_body
          THEN <<"\nBody:\n">> \o email_data.body \o <<"...">>
          ELSE <<>>)

\* the emails of the account
FetchedMessages ==
    {[id |-> <<"18c7f8a5b2d3e4f5">>, from |-> <<"registrar@college.edu">>,
      to |-> <<"me@example.com">>, subject |-> <<"Enrollment">>,
      date |-> <<"Mon, 2 Nov 2026 09:00:00 +0000">>,
      body |-> <<"Your enrollment is confirmed.">>]}

\* what messages().get(...).execute() does: it returns the message of that id,
\* or ends in one of the failures
GmailGetOutcomes(email_id) ==
    {<<"fetched", m>> : m \in {x \in FetchedMessages : x.id = email_id}}
        \cup {<<"get fails", f>> : f \in ApiFailures}

\* GmailGetEmailTool._run(email_id, include_body) with the service behaving as
\* `gmail`: every exception raised inside the try block goes to _handle_error
get_email_content(email_id, include_body, gmail) ==
    LET context == <<"retrieving email ">> \o email_id
    IN  IF gmail[1] = "get fails"
        THEN handle_error(gmail[2], context)
        ELSE LET parsed == parse_email_call(gmail[2])
             IN  IF parsed.exc # "none"
                 THEN handle_error(parsed.exc, context)
                 ELSE email_text(parsed.email_data, include_body)

\* "Read my last email"
GetEmailTask ==
    <<"R", "e", "a", "d", " ", "m", "y", " ", "l", "a", "s", "t", " ",
      "e", "m", "a", "i", "l">>

\* a program asks the Gmail agent to read an email
GetEmailRequest ==
    /\ pc = "idle"
    /\ node = NodeIdle
    /\ process_request("gmail", GetEmailTask, "direct")
    /\ UNCHANGED <<now, agents, sub_agents, orchVars, routeVars, sessionVars, mainVars>>

\* a ToolCall of get_email_content with its arguments
GetEmailToolCall(email_id, include_body, id) ==
    [name |-> "get_email_content", id |-> id,
     args |-> [email_id |-> email_id, include_body |-> include_body]]

\* the model of the Gmail agent answers with ToolCalls of get_email_content
ModelReturnsGetCalls ==
    /\ pc = "invoke"
    /\ cur_agent = "gmail"
    /\ \E args \in NameSeqs(ModelEmailIds \X BOOLEAN, MaxGetCalls - emitted_calls(messages)) :
          /\ response' = AIMessage(<<>>,
                [j \in 1..Len(args) |->
                    GetEmailToolCall(args[j][1], args[j][2], emitted_calls(messages) + j)])
          /\ messages' = Append(messages, response')
    /\ iteration' = iteration + 1
    /\ model_calls' = model_calls + 1
    /\ model_input' = messages
    /\ pc' = "check"
    /\ UNCHANGED <<caller, cur_agent, request, tc_idx, result, exc, tool_log, prompt_built_in_call>>
    /\ UNCHANGED <<now, agents, sub_agents, orchVars, routeVars, sessionVars, mainVars>>

\* tool.invoke(tool_call["args"]) of get_email_content: _run returns a text in
\* every case
GetEmailRuns ==
    /\ pc = "tools"
    /\ cur_tool # 0
    /\ agents[cur_agent].tools[cur_tool] = "get_email_content"
    /\ \E gmail \in GmailGetOutcomes(cur_tool_call.args.email_id) :
          LET text == get_email_content(cur_tool_call.args.email_id,
                                        cur_tool_call.args.include_body, gmail)
          IN  /\ messages' = Append(messages, tool_result_message(text, cur_tool_call))
              /\ tool_log' = Append(tool_log,
                    [id |-> cur_tool_call.id, tool |-> "get_email_content",
                     outcome |-> "returned", text |-> text,
                     email_id |-> cur_tool_call.args.email_id,
                     include_body |-> cur_tool_call.args.include_body,
                     gmail |-> gmail])
    /\ NextToolCall
    /\ UNCHANGED <<caller, cur_agent, request, iteration, response, exc, model_calls,
                   model_input, prompt_built_in_call>>
    /\ UNCHANGED <<now, agents, sub_agents, orchVars, routeVars, sessionVars, mainVars>>

----------------------------------------------------------------------------
(* A program that calls process_request itself, as the `__main__` blocks of  *)
(* gmail_agent.py (172-184) and calendar_agent.py (172-195) do               *)

DirectCall ==
    /\ pc = "idle"
    /\ node = NodeIdle
    /\ \E a \in AgentNames, req \in UserMessages :
          process_request(a, req, "direct")
    /\ UNCHANGED <<now, agents, sub_agents, orchVars, routeVars, sessionVars, mainVars>>

\* response = agent.process_request(request); print(response), or the exception
\* ends the script
DirectReturn ==
    /\ pc \in {"returned", "raised"}
    /\ caller = "direct"
    /\ IdleFrame
    /\ UNCHANGED <<now, agents, sub_agents, orchVars, routeVars, sessionVars, mainVars>>

\* a minute passes between two requests
Tick ==
    /\ pc = "idle"
    /\ node = NodeIdle
    /\ now < MaxClock
    /\ now' = now + 1
    /\ UNCHANGED <<agents, agentVars, sub_agents, orchVars, routeVars, sessionVars, mainVars>>

----------------------------------------------------------------------------
(* A program that registers tools itself: add_tool, gmail_agent.py 90-93 and *)
(* calendar_agent.py 98-101                                                  *)

\* the names of the tools a program registers: those of the agent's own tool
\* classes, of which it may build further instances, and one of its own
RegisteredNames(a) ==
    {created_tools(a)[i] : i \in 1..Len(created_tools(a))} \cup {"send_email"}

\* agent.add_tool(tool) on an agent its factory built
AddTool ==
    /\ pc = "idle"
    /\ node = NodeIdle
    /\ \E a \in AgentNames : \E tool \in RegisteredNames(a) :
          /\ Len(agents[a].tools) < Len(created_tools(a)) + MaxAddTools
          /\ agents' = [agents EXCEPT ![a].tools = add_tool(@, tool)]
    /\ UNCHANGED <<now, agentVars, sub_agents, orchVars, routeVars, sessionVars, mainVars>>

----------------------------------------------------------------------------
(* The delegation router: orchestration_agent.py 26-31, 62-71 *)

\* add_sub_agent: self.sub_agents[name] = {...}; a dict keeps insertion order and
\* an existing key keeps its place
add_sub_agent(table, name, agent, triggers) ==
    LET entry == [name |-> name, agent |-> agent, triggers |-> triggers]
    IN  IF \E i \in 1..Len(table) : table[i].name = name
        THEN [i \in 1..Len(table) |->
                 IF table[i].name = name THEN entry ELSE table[i]]
        ELSE Append(table, entry)

\* create_orchestrator_with_agents: gmail first, then calendar
create_orchestrator_with_agents ==
    add_sub_agent(add_sub_agent(<<>>, "gmail", "gmail", gmail_triggers),
                  "calendar", "calendar", calendar_triggers)

\* a variant: `if trigger in message_lower`, the trigger is not lower-cased
RECURSIVE any_trigger_matches_case_sensitive(_, _)
any_trigger_matches_case_sensitive(triggers, message_lower) ==
    IF triggers = <<>> THEN FALSE
    ELSE IF contains(message_lower, Head(triggers)) THEN TRUE
    ELSE any_trigger_matches_case_sensitive(Tail(triggers), message_lower)

\* `for trigger in config["triggers"]: if trigger.lower() in message_lower`
RECURSIVE any_trigger_matches(_, _)
any_trigger_matches(triggers, message_lower) ==
    IF triggers = <<>> THEN FALSE
    ELSE IF contains(message_lower, lower(Head(triggers))) THEN TRUE
    ELSE any_trigger_matches(Tail(triggers), message_lower)

\* a variant: `return agent_name` after the loops, the name the loop saw last
RECURSIVE first_delegate_returns_last(_, _)
first_delegate_returns_last(table, message_lower) ==
    IF table = <<>> THEN NoAgent
    ELSE IF any_trigger_matches(Head(table).triggers, message_lower)
              \/ Tail(table) = <<>>
         THEN Head(table).name
    ELSE first_delegate_returns_last(Tail(table), message_lower)

\* `for agent_name, config in self.sub_agents.items(): ... return agent_name`
RECURSIVE first_delegate(_, _)
first_delegate(table, message_lower) ==
    IF table = <<>> THEN NoAgent
    ELSE IF any_trigger_matches(Head(table).triggers, message_lower)
         THEN Head(table).name
    ELSE first_delegate(Tail(table), message_lower)

\* _should_delegate(user_message)
should_delegate(table, user_message) ==
    first_delegate(table, lower(user_message))

----------------------------------------------------------------------------
(* The conversation state machine: orchestration_agent.py 9-14, 73-193 *)

Threads ==
    {"default", "other"}

OrchestrationState(msgs, current_task, delegated_to, task_complete) ==
    [messages |-> msgs, current_task |-> current_task,
     delegated_to |-> delegated_to, task_complete |-> task_complete]

\* the channels of a thread that has no checkpoint
EmptyState ==
    OrchestrationState(<<>>, None, NoAgent, FALSE)

\* a variant: the update replaces the list
add_messages_replace(left, right) ==
    right

\* the reducer of `messages`: messages without ids are appended
add_messages(left, right) ==
    left \o right

\* a write of all four keys: `messages` goes through its reducer, the others are
\* overwritten
apply_update(st, update) ==
    OrchestrationState(add_messages(st.messages, update.messages),
                       update.current_task, update.delegated_to,
                       update.task_complete)

\* chat's initial_state
initial_state(message) ==
    OrchestrationState(<<HumanMessage(message)>>, None, NoAgent, FALSE)

\* _get_system_prompt of the orchestrator: one line per sub-agent (the joined
\* trigger phrases of a line are left out)
RECURSIVE agent_descriptions(_)
agent_descriptions(table) ==
    IF table = <<>> THEN <<>>
    ELSE <<"- ", Head(table).name, ": handles tasks containing ...">>
           \o agent_descriptions(Tail(table))

orchestrator_system_prompt(table) ==
    <<"You are a helpful conversational assistant ... Available specialized agents: ">>
      \o (IF table = <<>> THEN <<"No specialized agents available">>
          ELSE agent_descriptions(table))

\* a variant: only the last message is handed to the model
with_system_prompt_last_only(msgs, table) ==
    <<SystemMessage(orchestrator_system_prompt(table)), msgs[Len(msgs)]>>

\* `if not system_message: messages = [SystemMessage(...)] + messages`
with_system_prompt(msgs, table) ==
    IF \E i \in 1..Len(msgs) : msgs[i].role = "system"
    THEN msgs
    ELSE <<SystemMessage(orchestrator_system_prompt(table))>> \o msgs

\* `if isinstance(last_message, HumanMessage): delegate_to = self._should_delegate(...)`
delegate_target(msgs, table) ==
    LET last_message == msgs[Len(msgs)]
    IN  IF last_message.role = "human"
        THEN should_delegate(table, last_message.content)
        ELSE NoAgent

\* the acknowledgment text of orchestrator_node (89-90)
delegation_ack(delegate_to) ==
    <<"I'll help you with that ", title(delegate_to),
      " task. Let me process your request...\n\nDelegating to ",
      title(delegate_to), " agent...">>

\* a variant: the task text is not stored
delegate_update_no_task(msgs, delegate_to) ==
    OrchestrationState(<<AIMessage(delegation_ack(delegate_to), <<>>)>>,
                       None, delegate_to, FALSE)

\* what orchestrator_node returns when it delegates (92-97)
delegate_update(msgs, delegate_to) ==
    OrchestrationState(<<AIMessage(delegation_ack(delegate_to), <<>>)>>,
                       msgs[Len(msgs)].content, delegate_to, FALSE)

\* what orchestrator_node returns when it answers itself (102-107)
respond_update(resp) ==
    OrchestrationState(<<resp>>, None, NoAgent, TRUE)

\* should_continue
should_continue(st) ==
    IF st.delegated_to # NoAgent
    THEN <<"delegate_", st.delegated_to>>
    ELSE NodeEnd

\* build_graph: one delegate node per sub-agent registered when it runs
build_graph(table) ==
    [built |-> TRUE, nodes |-> {<<"delegate_", table[i].name>> : i \in 1..Len(table)}]

\* the agent object registered under a sub-agent name
agent_of(table, name) ==
    table[CHOOSE i \in 1..Len(table) : table[i].name = name].agent

\* a variant: the result is passed on without the attribution prefix
completed_update_no_prefix(agent_name, res) ==
    OrchestrationState(<<AIMessage(res, <<>>)>>, None, NoAgent, TRUE)

\* delegation_node, result returned (120-127)
completed_update(agent_name, res) ==
    OrchestrationState(
        <<AIMessage(<<title(agent_name), " task completed:\n\n">> \o res, <<>>)>>,
        None, NoAgent, TRUE)

\* a variant: the turn is not marked complete when the sub-agent failed
error_update_not_complete(agent_name, e) ==
    OrchestrationState(
        <<AIMessage(<<"Error processing ", title(agent_name), " task: ">> \o e, <<>>)>>,
        None, NoAgent, FALSE)

\* delegation_node, exception caught (129-136)
error_update(agent_name, e) ==
    OrchestrationState(
        <<AIMessage(<<"Error processing ", title(agent_name), " task: ">> \o e, <<>>)>>,
        None, NoAgent, TRUE)

\* a variant: `ai_messages[0].content`
last_ai_content_first(msgs) ==
    LET ai == {i \in 1..Len(msgs) : msgs[i].role = "ai"}
    IN  IF ai = {} THEN <<"No response generated">>
        ELSE msgs[CHOOSE i \in ai : \A j \in ai : i <= j].content

\* chat's return value: the content of the last AIMessage of the result
last_ai_content(msgs) ==
    LET ai == {i \in 1..Len(msgs) : msgs[i].role = "ai"}
    IN  IF ai = {} THEN <<"No response generated">>
        ELSE msgs[CHOOSE i \in ai : \A j \in ai : j <= i].content

\* a variant: the input carries the message only, the other keys stay as the
\* checkpoint has them
input_checkpoint_messages_only(checkpoint, message) ==
    [checkpoint EXCEPT !.messages = add_messages(@, <<HumanMessage(message)>>)]

\* graph.invoke(initial_state, config) (181-189): the thread's checkpoint is
\* loaded, what a run that did not finish left to do is dropped, and every key of
\* the input is written to its channel
input_checkpoint(checkpoint, message) ==
    apply_update(checkpoint, initial_state(message))

\* a variant: the config names the default thread whatever thread_id is
thread_config_default(thread) ==
    "default"

\* config = {"configurable": {"thread_id": thread_id}} (188): the key under
\* which the MemorySaver keeps the checkpoints of the call
thread_config(thread) ==
    thread

\* chat(message, thread_id) (176-189): build the graph on first use, then
\* graph.invoke: the input is written to the thread's checkpoint, which is
\* saved, and the entry node is scheduled
chat(message, thread) ==
    /\ cur_input' = message
    /\ cur_thread' = thread
    /\ turn_start' = memory[thread].messages
    /\ state' = input_checkpoint(memory[thread_config(thread)], message)
    /\ memory' = [memory EXCEPT ![thread_config(thread)] = state']
    /\ graph' = IF graph.built THEN graph ELSE build_graph(sub_agents)
    /\ node' = NodeOrchestrator
    /\ answer' = None
    /\ chat_exc' = None
    /\ turns' = turns + 1
    /\ orch_model_calls' = 0
    /\ orch_model_input' = <<>>
    /\ delegations' = <<>>

\* a program calls chat, with a message and a thread id of its choice
ChatBegin ==
    /\ node = NodeIdle
    /\ pc = "idle"
    /\ session = "off"
    /\ turns < MaxTurns
    /\ \E message \in UserMessages, thread \in Threads :
          chat(message, thread)
    /\ UNCHANGED <<now, agents, agentVars, sub_agents, routeVars, sessionVars, mainVars>>

\* orchestrator_node, the router names a sub-agent; then should_continue picks
\* the next node, which the compiled graph must hold
OrchestratorDelegates ==
    /\ node = NodeOrchestrator
    /\ delegate_target(state.messages, sub_agents) # NoAgent
    /\ state' = apply_update(state,
                    delegate_update(state.messages,
                                    delegate_target(state.messages, sub_agents)))
    /\ IF should_continue(state') \in graph.nodes \cup {NodeEnd}
       THEN /\ node' = should_continue(state')
            /\ memory' = [memory EXCEPT ![cur_thread] = state']
            /\ chat_exc' = chat_exc
       ELSE /\ node' = NodeIdle
            /\ memory' = memory
            /\ chat_exc' = <<"KeyError">>
    /\ UNCHANGED <<graph, turn_start, cur_thread, cur_input, answer, turns, orch_model_calls,
                   orch_model_input, delegations>>
    /\ UNCHANGED <<now, agents, agentVars, sub_agents, routeVars, sessionVars, mainVars>>

\* orchestrator_node, the router names nobody: self.model.invoke(messages) answers
OrchestratorResponds ==
    /\ node = NodeOrchestrator
    /\ delegate_target(state.messages, sub_agents) = NoAgent
    /\ orch_model_calls' = orch_model_calls + 1
    /\ orch_model_input' = with_system_prompt(state.messages, sub_agents)
    /\ \E text \in ModelTexts :
          state' = apply_update(state, respond_update(AIMessage(text, <<>>)))
    /\ node' = should_continue(state')
    /\ memory' = [memory EXCEPT ![cur_thread] = state']
    /\ UNCHANGED <<graph, turn_start, cur_thread, cur_input, answer, chat_exc, turns, delegations>>
    /\ UNCHANGED <<now, agents, agentVars, sub_agents, routeVars, sessionVars, mainVars>>

\* orchestrator_node, self.model.invoke raises: the exception leaves graph.invoke
\* and chat; the checkpoint written for the input stays
OrchestratorModelRaises ==
    /\ node = NodeOrchestrator
    /\ delegate_target(state.messages, sub_agents) = NoAgent
    /\ orch_model_calls' = orch_model_calls + 1
    /\ orch_model_input' = with_system_prompt(state.messages, sub_agents)
    /\ \E e \in ModelErrors : chat_exc' = e
    /\ node' = NodeIdle
    /\ UNCHANGED <<graph, turn_start, memory, state, cur_thread, cur_input, answer, turns, delegations>>
    /\ UNCHANGED <<now, agents, agentVars, sub_agents, routeVars, sessionVars, mainVars>>

\* the sub-agent whose delegate node is running
delegate_name ==
    node[2]

\* history: how the last process_request call of the turn ended
finished(calls, outcome, text) ==
    [calls EXCEPT ![Len(calls)].outcome = outcome, ![Len(calls)].text = text]

KeyboardInterrupt ==
    <<"KeyboardInterrupt">>

\* delegation_node: agent.process_request(task)
DelegationCalls ==
    /\ Len(node) = 2
    /\ pc = "idle"
    /\ process_request(agent_of(sub_agents, delegate_name), state.current_task, "delegate")
    /\ delegations' = Append(delegations,
            [agent |-> agent_of(sub_agents, delegate_name), request |-> state.current_task,
             outcome |-> "running", text |-> None])
    /\ UNCHANGED <<graph, turn_start, memory, node, state, cur_thread, cur_input, answer, chat_exc,
                   turns, orch_model_calls, orch_model_input>>
    /\ UNCHANGED <<now, agents, sub_agents, routeVars, sessionVars, mainVars>>

\* delegation_node: process_request returned; the edge delegate_X -> END
DelegationReturns ==
    /\ Len(node) = 2
    /\ pc = "returned"
    /\ caller = "delegate"
    /\ state' = apply_update(state, completed_update(delegate_name, result))
    /\ memory' = [memory EXCEPT ![cur_thread] = state']
    /\ node' = NodeEnd
    /\ delegations' = finished(delegations, "returned", result)
    /\ IdleFrame
    /\ UNCHANGED <<graph, turn_start, cur_thread, cur_input, answer, chat_exc, turns, orch_model_calls,
                   orch_model_input>>
    /\ UNCHANGED <<now, agents, sub_agents, routeVars, sessionVars, mainVars>>

\* delegation_node: `except Exception as e`
DelegationCatches ==
    /\ Len(node) = 2
    /\ pc = "raised"
    /\ caller = "delegate"
    /\ state' = apply_update(state, error_update(delegate_name, exc))
    /\ memory' = [memory EXCEPT ![cur_thread] = state']
    /\ node' = NodeEnd
    /\ delegations' = finished(delegations, "raised", exc)
    /\ IdleFrame
    /\ UNCHANGED <<graph, turn_start, cur_thread, cur_input, answer, chat_exc, turns, orch_model_calls,
                   orch_model_input>>
    /\ UNCHANGED <<now, agents, sub_agents, routeVars, sessionVars, mainVars>>

\* a KeyboardInterrupt arrives while the delegate node waits for the sub-agent's
\* model: it is no Exception, so neither process_request nor delegation_node
\* catches it and it leaves graph.invoke and chat; the checkpoint saved after
\* orchestrator_node stays
ChatInterrupted ==
    /\ Len(node) = 2
    /\ pc = "invoke"
    /\ caller = "delegate"
    /\ chat_exc' = KeyboardInterrupt
    /\ node' = NodeIdle
    /\ delegations' = finished(delegations, "interrupted", KeyboardInterrupt)
    /\ IdleFrame
    /\ UNCHANGED <<graph, turn_start, memory, state, cur_thread, cur_input, answer, turns,
                   orch_model_calls, orch_model_input>>
    /\ UNCHANGED <<now, agents, sub_agents, routeVars, sessionVars, mainVars>>

\* chat (191-193): graph.invoke returned, the last AI message is the answer
ChatReturns ==
    /\ node = NodeEnd
    /\ answer' = last_ai_content(state.messages)
    /\ node' = NodeIdle
    /\ UNCHANGED <<graph, turn_start, memory, state, cur_thread, cur_input, chat_exc, turns,
                   orch_model_calls, orch_model_input, delegations>>
    /\ UNCHANGED <<now, agents, agentVars, sub_agents, routeVars, sessionVars, mainVars>>

\* the sub-agents a program registers itself: the Gmail agent object once more,
\* under the name 'trivia' and with the trigger 'capital'
LateSubAgents ==
    {[name |-> "trivia", agent |-> "gmail",
      triggers |-> << <<"c", "a", "p", "i", "t", "a", "l">> >>]}

\* orchestrator.add_sub_agent(name, agent, triggers) between two chat calls, on the
\* orchestrator the factory returned: the table changes, self.graph does not
AddSubAgent ==
    /\ node = NodeIdle
    /\ pc = "idle"
    /\ session = "off"
    /\ \E late \in LateSubAgents :
          /\ \A i \in 1..Len(sub_agents) : sub_agents[i].name # late.name
          /\ sub_agents' = add_sub_agent(sub_agents, late.name, late.agent, late.triggers)
    /\ UNCHANGED <<now, agents, agentVars, orchVars, routeVars, sessionVars, mainVars>>

----------------------------------------------------------------------------
(* The interactive session: orchestration_agent.py 195-230 *)

Whitespace ==
    {" ", "\t", "\n"}

RECURSIVE lstrip(_)
lstrip(s) ==
    IF s # <<>> /\ Head(s) \in Whitespace THEN lstrip(Tail(s)) ELSE s

RECURSIVE rstrip(_)
rstrip(s) ==
    IF s # <<>> /\ s[Len(s)] \in Whitespace
    THEN rstrip(SubSeq(s, 1, Len(s) - 1))
    ELSE s

\* str.strip()
strip(s) ==
    rstrip(lstrip(s))

\* ['exit', 'quit', 'bye', 'q']
exit_words ==
    {<<"e", "x", "i", "t">>, <<"q", "u", "i", "t">>, <<"b", "y", "e">>, <<"q">>}

\* a variant: `if user_input in [...]`, the input is not lower-cased
is_exit_case_sensitive(text) ==
    text \in exit_words

\* `if user_input.lower() in ['exit', 'quit', 'bye', 'q']`
is_exit(text) ==
    lower(text) \in exit_words

\* the lines a user types: exit words as typed, nothing, a request with blanks
\* around it, a question, a word that starts like an exit word
InputLines ==
    {<<" ", "E", "x", "i", "t", " ">>, <<"Q", "U", "I", "T">>, <<"b", "y", "e">>,
     <<"q", "\t">>, <<>>, <<" ", " ">>,
     <<" ">> \o ScenarioA \o <<" ", " ">>, ScenarioB,
     <<"q", "u", "i", "t", "e">>}

Goodbye ==
    <<"\nBot: Goodbye! Have a great day!">>

InterruptedGoodbye ==
    <<"\n\nBot: Chat interrupted. Goodbye!">>

BotPrefix ==
    <<"\nBot: ">>

\* the two lines of `except Exception as e:` (229-230)
error_lines(e) ==
    << <<"\nBot: Sorry, I encountered an error: ">> \o e,
       <<"Let's continue our conversation.\n">> >>

\* a variant: the handler of `except Exception` ends the loop
after_error_ends ==
    "ended"

\* where `except Exception as e:` leaves the loop: at the next iteration
after_error ==
    "input"

\* what input("You: ") raises at the end of the input
EOFError ==
    <<"EOF when reading a line">>

\* history: the input() calls of the session that failed
read_failures ==
    Cardinality({i \in 1..Len(printed) : printed[i] = error_lines(EOFError)[1]})

\* a variant: input() is called before the try block
input_error_not_caught ==
    FALSE

\* input("You: ") is inside `try:` (204-206), `except Exception` catches what it
\* raises
input_error_caught ==
    TRUE

\* the idle orchestrator part of a step of the loop that calls nothing
NoChat ==
    UNCHANGED <<now, agents, agentVars, sub_agents, orchVars, routeVars, mainVars>>

\* user_input = input("You: ").strip() is an exit word: goodbye, break (206-211)
StartChatExits ==
    /\ session = "input"
    /\ stdin = "open"
    /\ \E line \in InputLines :
          /\ is_exit(strip(line))
          /\ user_input' = strip(line)
    /\ printed' = Append(printed, Goodbye)
    /\ session' = "ended"
    /\ UNCHANGED <<thread_id, completed, stdin>>
    /\ NoChat

\* the input is empty: continue (214-215)
StartChatSkips ==
    /\ session = "input"
    /\ stdin = "open"
    /\ \E line \in InputLines :
          /\ ~ is_exit(strip(line))
          /\ strip(line) = <<>>
          /\ user_input' = strip(line)
    /\ UNCHANGED <<session, thread_id, printed, completed, stdin>>
    /\ NoChat

\* any other input: print the prefix and call self.chat(user_input, thread_id)
\* (218-219)
StartChatCalls ==
    /\ session = "input"
    /\ stdin = "open"
    /\ turns < MaxTurns
    /\ \E line \in InputLines :
          /\ ~ is_exit(strip(line))
          /\ strip(line) # <<>>
          /\ user_input' = strip(line)
          /\ chat(strip(line), thread_id)
    /\ printed' = Append(printed, BotPrefix)
    /\ session' = "chat"
    /\ UNCHANGED <<thread_id, completed, stdin>>
    /\ UNCHANGED <<now, agents, agentVars, sub_agents, routeVars, mainVars>>

\* input("You: ") raises EOFError: the input has ended, and every later call
\* raises it too
StartChatReadFails ==
    /\ session = "input"
    /\ read_failures < MaxReadFailures
    /\ stdin' = "closed"
    /\ IF input_error_caught
       THEN /\ printed' = printed \o error_lines(EOFError)
            /\ session' = after_error
       ELSE /\ printed' = printed
            /\ session' = "ended"
    /\ UNCHANGED <<thread_id, user_input, completed>>
    /\ NoChat

\* chat returned: print(response); print() (222-223)
StartChatPrints ==
    /\ session = "chat"
    /\ node = NodeIdle
    /\ chat_exc = None
    /\ printed' = printed \o <<answer, <<"">> >>
    /\ completed' = memory[thread_id].messages
    /\ session' = "input"
    /\ UNCHANGED <<thread_id, user_input, stdin>>
    /\ NoChat

\* an Exception left chat: `except Exception as e:` (228-230)
StartChatCatches ==
    /\ session = "chat"
    /\ node = NodeIdle
    /\ chat_exc # None
    /\ chat_exc # KeyboardInterrupt
    /\ printed' = printed \o error_lines(chat_exc)
    /\ session' = after_error
    /\ UNCHANGED <<thread_id, user_input, completed, stdin>>
    /\ NoChat

\* `except KeyboardInterrupt:` (225-227): the user interrupts at the prompt, or
\* the interrupt left chat
StartChatInterrupted ==
    /\ \/ session = "input"
       \/ session = "chat" /\ node = NodeIdle /\ chat_exc = KeyboardInterrupt
    /\ printed' = Append(printed, InterruptedGoodbye)
    /\ session' = "ended"
    /\ UNCHANGED <<thread_id, user_input, completed, stdin>>
    /\ NoChat

----------------------------------------------------------------------------
(* Start-up: main.py 6-20, gmail_agent.py 15-45 and 155-168,                 *)
(* calendar_agent.py 16-45 and 158-169                                       *)

\* what is at token_path: no file, a valid token, an expired token with a
\* refresh token, a token that is neither valid nor refreshable, a file that
\* Credentials.from_authorized_user_file cannot read
TokenStates ==
    {"absent", "valid", "expired", "invalid", "corrupt"}

FileNames ==
    {"token.json", "calendar_token.json", "credentials.json"}

\* token_path of the two agent modules
token_path(a) ==
    IF a = "gmail" THEN "token.json" ELSE "calendar_token.json"

\* what Google answers to credentials.refresh(Request()) and to
\* flow.run_local_server(port=0)
OAuthOutcomes ==
    {"granted", "refused"}

\* setup_gmail_credentials / setup_calendar_credentials over the files fs: the
\* exception raised (None when credentials are returned) and the files after it
setup_credentials(a, fs, oauth) ==
    LET token == fs[token_path(a)]
        saved == [fs EXCEPT ![token_path(a)] = "valid"]
    IN  IF token = "corrupt"
        THEN [exc |-> <<"ValueError">>, files |-> fs]
        ELSE IF token = "valid"
        THEN [exc |-> None, files |-> fs]
        ELSE IF token = "expired"
        THEN IF oauth = "granted"
             THEN [exc |-> None, files |-> saved]
             ELSE [exc |-> <<"RefreshError">>, files |-> fs]
        ELSE IF fs["credentials.json"] = "absent"
        THEN [exc |-> <<"FileNotFoundError">>, files |-> fs]
        ELSE IF oauth = "granted"
             THEN [exc |-> None, files |-> saved]
             ELSE [exc |-> <<"AccessDeniedError">>, files |-> fs]

\* an agent run_chat_bot has not created
NotCreated ==
    [system_prompt |-> None, tools |-> <<>>]

\* a variant: run_chat_bot goes on without the agent whose creation failed
after_create_failure_degraded(next) ==
    next

\* create_gmail_agent / create_calendar_agent raised: run_chat_bot has no
\* try/except, the exception leaves it
after_create_failure(next) ==
    "raised"

\* create_gmail_agent / create_calendar_agent: credentials first, then the agent
\* with its tools
create_agent_call(a, next) ==
    \E oauth \in OAuthOutcomes :
        LET got == setup_credentials(a, files, oauth)
        IN  /\ files' = got.files
            /\ IF got.exc = None
               THEN /\ agents' = [agents EXCEPT ![a] = create_agent(a, now)]
                    /\ main_pc' = next
                    /\ main_exc' = main_exc
               ELSE /\ agents' = agents
                    /\ main_pc' = after_create_failure(next)
                    /\ main_exc' = got.exc

\* gmail_agent = create_gmail_agent(model_name="qwen3:8b") (main.py 9)
CreateGmailAgent ==
    /\ main_pc = "start"
    /\ create_agent_call("gmail", "gmail created")
    /\ UNCHANGED <<now, agentVars, sub_agents, orchVars, routeVars, sessionVars>>

\* calendar_agent = create_calendar_agent(model_name="qwen3:8b") (main.py 10)
CreateCalendarAgent ==
    /\ main_pc = "gmail created"
    /\ create_agent_call("calendar", "calendar created")
    /\ UNCHANGED <<now, agentVars, sub_agents, orchVars, routeVars, sessionVars>>

\* orchestrator = create_orchestrator_with_agents(...) (main.py 13-17)
CreateOrchestrator ==
    /\ main_pc = "calendar created"
    /\ sub_agents' = create_orchestrator_with_agents
    /\ main_pc' = "orchestrator created"
    /\ UNCHANGED <<now, agents, agentVars, orchVars, routeVars, sessionVars, files, main_exc>>

\* orchestrator.start_chat() (main.py 20): the banner, then `while True:`
StartChat ==
    /\ main_pc = "orchestrator created"
    /\ session = "off"
    /\ session' = "input"
    /\ thread_id' = "default"
    /\ main_pc' = "serving"
    /\ UNCHANGED <<user_input, printed, completed, stdin>>
    /\ UNCHANGED <<now, agents, agentVars, sub_agents, orchVars, routeVars, files, main_exc>>

----------------------------------------------------------------------------
(* The router on its own, over small tables and messages *)

RouterChars ==
    {"a", "A", "b"}

RouterTriggers ==
    {<<"a">>, <<"A", "b">>, <<"b", "b">>}

RECURSIVE SeqsUpTo(_, _)
SeqsUpTo(S, n) ==
    IF n = 0 THEN {<<>>}
    ELSE LET shorter == SeqsUpTo(S, n - 1)
         IN  shorter \cup {Append(s, x) : s \in shorter, x \in S}

RouterTables ==
    LET lists == SeqsUpTo(RouterTriggers, MaxTriggers)
    IN  {<<>>}
        \cup {add_sub_agent(<<>>, n, n, t) : n \in AgentNames, t \in lists}
        \cup {add_sub_agent(add_sub_agent(<<>>, n, n, t), m, m, u) :
                n \in AgentNames, m \in AgentNames, t \in lists, u \in lists}

\* a call of _should_delegate, the first or a later one
Route ==
    /\ route_out' = should_delegate(sub_agents, route_in)
    /\ UNCHANGED <<now, agents, agentVars, sub_agents, orchVars, route_in, sessionVars, mainVars>>

----------------------------------------------------------------------------
(* Specifications *)

\* no process_request call is running
InitNoCall ==
    /\ pc = "idle"
    /\ caller = "none"
    /\ cur_agent = "none"
    /\ request = None
    /\ messages = <<>>
    /\ iteration = 0
    /\ response = NoMessage
    /\ tc_idx = 0
    /\ result = None
    /\ exc = None
    /\ model_calls = 0
    /\ model_input = <<>>
    /\ tool_log = <<>>
    /\ prompt_built_in_call = FALSE

InitAgents ==
    /\ now = 0
    /\ agents = [a \in AgentNames |-> create_agent(a, 0)]
    /\ InitNoCall

InitOrchestrator ==
    /\ graph = [built |-> FALSE, nodes |-> {}]
    /\ memory = [t \in Threads |-> EmptyState]
    /\ node = NodeIdle
    /\ state = EmptyState
    /\ cur_thread = "none"
    /\ cur_input = None
    /\ answer = None
    /\ chat_exc = None
    /\ turns = 0
    /\ orch_model_calls = 0
    /\ orch_model_input = <<>>
    /\ delegations = <<>>
    /\ turn_start = <<>>

\* start_chat is not running
InitSession ==
    /\ session = "off"
    /\ thread_id = "none"
    /\ user_input = None
    /\ printed = <<>>
    /\ completed = <<>>
    /\ stdin = "open"

\* run_chat_bot found its files in order and has built the orchestrator
InitMain ==
    /\ files = [f \in FileNames |-> IF f = "credentials.json" THEN "present" ELSE "valid"]
    /\ main_pc = "orchestrator created"
    /\ main_exc = None

\* main.py run_chat_bot, lines 9-17: both agents and the orchestrator are built
Init ==
    /\ InitAgents
    /\ InitOrchestrator
    /\ InitSession
    /\ InitMain
    /\ sub_agents = create_orchestrator_with_agents
    /\ route_in = <<>>
    /\ route_out = "unset"

\* the chat bot: chat calls, one at a time
Next ==
    \/ ChatBegin
    \/ OrchestratorDelegates
    \/ OrchestratorResponds
    \/ OrchestratorModelRaises
    \/ DelegationCalls
    \/ AgentStep
    \/ DelegationReturns
    \/ DelegationCatches
    \/ ChatInterrupted
    \/ ChatReturns
    \/ Tick

Spec ==
    Init /\ [][Next]_vars

\* an agent used on its own
NextAgent ==
    \/ DirectCall
    \/ AgentStep
    \/ DirectReturn
    \/ Tick

SpecAgent ==
    Init /\ [][NextAgent]_vars

\* process_request runs on: the model and the tools answer, the loop takes its steps
SpecAgentFair ==
    Init /\ [][NextAgent]_vars /\ WF_vars(AgentStep)

InitRouter ==
    /\ InitAgents
    /\ InitOrchestrator
    /\ InitSession
    /\ InitMain
    /\ sub_agents \in RouterTables
    /\ route_in \in SeqsUpTo(RouterChars, MaxMsgLen)
    /\ route_out = "unset"

NextRouter ==
    Route

SpecRouter ==
    InitRouter /\ [][NextRouter]_vars

\* start_chat(thread_id) has printed its banner and is at `while True:`
InitChat ==
    /\ InitAgents
    /\ InitOrchestrator
    /\ files = [f \in FileNames |-> IF f = "credentials.json" THEN "present" ELSE "valid"]
    /\ main_pc = "serving"
    /\ main_exc = None
    /\ sub_agents = create_orchestrator_with_agents
    /\ session = "input"
    /\ thread_id \in Threads
    /\ user_input = None
    /\ printed = <<>>
    /\ completed = <<>>
    /\ stdin = "open"
    /\ route_in = <<>>
    /\ route_out = "unset"

\* the chat bot of main.py: the session reads lines and calls chat
NextChat ==
    \/ StartChatExits
    \/ StartChatSkips
    \/ StartChatCalls
    \/ StartChatReadFails
    \/ OrchestratorDelegates
    \/ OrchestratorResponds
    \/ OrchestratorModelRaises
    \/ DelegationCalls
    \/ AgentStep
    \/ DelegationReturns
    \/ DelegationCatches
    \/ ChatInterrupted
    \/ ChatReturns
    \/ StartChatPrints
    \/ StartChatCatches
    \/ StartChatInterrupted

SpecChat ==
    InitChat /\ [][NextChat]_vars

\* run_chat_bot is called: nothing is built yet, the files of the project root
\* are as the operator left them
InitStartup ==
    /\ now = 0
    /\ agents = [a \in AgentNames |-> NotCreated]
    /\ InitNoCall
    /\ InitOrchestrator
    /\ InitSession
    /\ sub_agents = <<>>
    /\ route_in = <<>>
    /\ route_out = "unset"
    /\ files \in {fs \in [FileNames -> TokenStates \cup {"present"}] :
                     /\ fs["credentials.json"] \in {"present", "absent"}
                     /\ fs["token.json"] \in TokenStates
                     /\ fs["calendar_token.json"] \in TokenStates}
    /\ main_pc = "start"
    /\ main_exc = None

NextStartup ==
    \/ CreateGmailAgent
    \/ CreateCalendarAgent
    \/ CreateOrchestrator
    \/ StartChat

SpecStartup ==
    InitStartup /\ [][NextStartup]_vars

\* a program that uses the orchestrator of the factory and registers a sub-agent
\* of its own, before or after the first chat call
NextLate ==
    \/ AddSubAgent
    \/ ChatBegin
    \/ OrchestratorDelegates
    \/ OrchestratorResponds
    \/ OrchestratorModelRaises
    \/ DelegationCalls
    \/ AgentStep
    \/ DelegationReturns
    \/ DelegationCatches
    \/ ChatInterrupted
    \/ ChatReturns

SpecLate ==
    Init /\ [][NextLate]_vars

\* a program that registers tools on the agents the factories built
NextRegistry ==
    AddTool

SpecRegistry ==
    Init /\ [][NextRegistry]_vars

\* the Gmail agent asked to read an email
NextGetEmail ==
    \/ GetEmailRequest
    \/ ModelReturnsGetCalls
    \/ ModelReturnsText
    \/ ModelRaises
    \/ CheckResponse
    \/ GetEmailRuns
    \/ DirectReturn

SpecGetEmail ==
    Init /\ [][NextGetEmail]_vars

\* the Gmail agent asked to label emails
NextLabel ==
    \/ LabelRequest
    \/ ModelReturnsLabelCalls
    \/ ModelReturnsText
    \/ ModelRaises
    \/ CheckResponse
    \/ ApplyLabelRuns
    \/ DirectReturn

SpecLabel ==
    Init /\ [][NextLabel]_vars

----------------------------------------------------------------------------
(* Properties of process_request *)

\* the index of the last AI message of a history, 0 when it has none
LastAI(msgs) ==
    LET ai == {i \in 1..Len(msgs) : msgs[i].role = "ai"}
    IN  IF ai = {} THEN 0 ELSE CHOOSE i \in ai : \A j \in ai : j <= i

\* the ids of the ToolCalls of the current response, in the order emitted
ResponseIds ==
    [j \in 1..Len(response.tool_calls) |-> response.tool_calls[j].id]

\* the ids of the tool invocations made for the current response, in order
InvokedIds ==
    LET OfResponse(e) == \E j \in 1..Len(ResponseIds) : ResponseIds[j] = e.id
        made == SelectSeq(tool_log, OfResponse)
    IN  [k \in 1..Len(made) |-> made[k].id]

\* the back-references of the Tool messages that follow the last AI message
AnsweredIds ==
    LET tail == SubSeq(messages, LastAI(messages) + 1, Len(messages))
    IN  [k \in 1..Len(tail) |-> tail[k].tool_call_id]

\* the loop has gone through every ToolCall of the current response and is
\* about to invoke the model again
RoundDone ==
    pc = "invoke" /\ iteration > 0

\* C1: when the loop has gone through a response with N ToolCalls, whatever
\* their names, it has made exactly N tool invocations, one per ToolCall in the
\* order emitted, and appended exactly N Tool messages, before the model is
\* invoked again.
C1_OneInvocationPerToolCall ==
    RoundDone =>
        /\ InvokedIds = ResponseIds
        /\ AnsweredIds = ResponseIds

\* C2: every Tool message of the history refers to a ToolCall of the nearest AI
\* message before it, and no Tool message comes before the first AI message.
C2_ToolMessagesReferBack ==
    \A i \in 1..Len(messages) :
        messages[i].role = "tool" =>
            LET k == LastAI(SubSeq(messages, 1, i - 1))
            IN  /\ k > 0
                /\ \E j \in 1..Len(messages[k].tool_calls) :
                      messages[k].tool_calls[j].id = messages[i].tool_call_id

\* C2 witness: a Tool message answers the second AI message of a request
C2_Witness ==
    /\ Len(messages) >= 6
    /\ messages[Len(messages)].role = "tool"
    /\ \E i, k \in 3..(Len(messages) - 1) :
          i < k /\ messages[i].role = "ai" /\ messages[k].role = "ai"

\* the first response of the request carries no ToolCalls
FirstResponsePlain ==
    /\ Len(messages) >= 3
    /\ messages[3].role = "ai"
    /\ messages[3].tool_calls = <<>>

\* C3: when the first response carries no ToolCalls, the model has been invoked
\* once, no tool has been invoked, nothing follows in the loop, and the value
\* returned is that response's content.
C3_PlainFirstResponseReturned ==
    FirstResponsePlain =>
        /\ pc \in {"check", "returned"}
        /\ model_calls = 1
        /\ iteration = 1
        /\ tool_log = <<>>
        /\ Len(messages) = 3
        /\ pc = "returned" => result = messages[3].content

\* C3 witness: a request returned after one plain response
C3_Witness ==
    /\ pc = "returned"
    /\ FirstResponsePlain
    /\ result = <<"All set.">>

\* the Tool message that reports exception text e for the ToolCall of that id
IsErrorMessage(m, id, e) ==
    /\ m.role = "tool"
    /\ m.tool_call_id = id
    /\ m.content = <<"Tool execution error: ">> \o e

\* C4: an exception of a registered tool never leaves process_request: a Tool
\* message with the error text and the ToolCall's id is in the history, the
\* later ToolCalls of the same response are still gone through, and the next
\* model invocation is given that history.
C4_ToolFailureFedBack ==
    /\ pc = "raised" => exc \in ModelErrors
    /\ \A k \in 1..Len(tool_log) :
          tool_log[k].outcome = "raised" =>
              \E i \in 1..Len(messages) :
                  IsErrorMessage(messages[i], tool_log[k].id, tool_log[k].text)
    /\ RoundDone =>
          \A j \in 1..Len(response.tool_calls) :
              resolve_tool(agents[cur_agent].tools, response.tool_calls[j].name) # 0
                  => \E k \in 1..Len(tool_log) :
                        tool_log[k].id = response.tool_calls[j].id
    /\ pc \in {"check", "tools", "returned"} =>
          model_input = SubSeq(messages, 1, LastAI(messages) - 1)
    /\ RoundDone => model_input = SubSeq(messages, 1, LastAI(messages) - 1)
    /\ pc = "raised" => model_input = messages

\* C4 witness: a tool raised, a later ToolCall of the same response was invoked,
\* and the model was invoked again with the error message in its input
C4_Witness ==
    /\ model_calls >= 2
    /\ pc = "check"
    /\ \E k \in 1..Len(tool_log) :
          /\ tool_log[k].outcome = "raised"
          /\ k < Len(tool_log)
          /\ \E i \in 1..Len(model_input) :
                IsErrorMessage(model_input[i], tool_log[k].id, tool_log[k].text)
          /\ \E i, n \in 1..Len(model_input) :
                /\ i < n
                /\ model_input[i].role = "tool"
                /\ model_input[i].tool_call_id = tool_log[k].id
                /\ model_input[n].role = "tool"
                /\ model_input[n].tool_call_id = tool_log[k + 1].id

\* C5: a ToolCall whose name is not in the agent's registry is answered, once
\* the loop has gone through the response, by a Tool message with an error text
\* and that ToolCall's id.
C5_UnknownToolAnswered ==
    RoundDone =>
        \A j \in 1..Len(response.tool_calls) :
            resolve_tool(agents[cur_agent].tools, response.tool_calls[j].name) = 0
                => \E i \in 1..Len(messages) :
                      /\ messages[i].role = "tool"
                      /\ messages[i].tool_call_id = response.tool_calls[j].id

\* process_request returned only on a response without ToolCalls, with its text
ReturnedOnPlainResponse ==
    pc = "returned" =>
        /\ response.role = "ai"
        /\ ~ has_tool_calls(response)
        /\ result = response.content

\* C6: process_request returns exactly when the model gives a response without
\* ToolCalls: it returns only then, a response without ToolCalls is returned,
\* and after k responses with ToolCalls a (k+1)-th model invocation is made.
C6_ReturnsIffNoToolCalls ==
    /\ [] ReturnedOnPlainResponse
    /\ \A text \in ModelTexts :
          (pc = "check" /\ response = AIMessage(text, <<>>))
              ~> (pc = "returned" /\ result = text)
    /\ \A k \in 1..MaxToolCalls :
          (pc = "check" /\ has_tool_calls(response) /\ model_calls = k)
              ~> (model_calls = k + 1)

\* C6 witness: a request returned after three responses with ToolCalls
C6_Witness ==
    /\ pc = "returned"
    /\ model_calls = 4
    /\ result \in ModelTexts

\* the history the call started from: a system message and the request
StartsFrom(content) ==
    /\ Len(messages) >= 2
    /\ messages[1] = SystemMessage(content)
    /\ messages[2] = HumanMessage(request)
    /\ (pc = "invoke" /\ iteration = 0) => Len(messages) = 2

\* C7 as stated: every call starts from a system message and the request, and
\* the system content was built during the call.
C7_PromptBuiltPerCall ==
    pc # "idle" =>
        /\ StartsFrom(get_system_prompt(cur_agent, now))
        /\ prompt_built_in_call

\* C7 amended: every call starts from a system message and the request, the
\* system content is what _get_system_prompt gives at the time of the call;
\* CalendarAgent builds it in the call, GmailAgent takes the one __init__ stored.
C7_PromptCurrentPerCall ==
    pc # "idle" =>
        /\ StartsFrom(get_system_prompt(cur_agent, now))
        /\ cur_agent = "calendar" => prompt_built_in_call
        /\ cur_agent = "gmail" =>
              /\ ~ prompt_built_in_call
              /\ messages[1].content = agents["gmail"].system_prompt

\* C7 witness: a CalendarAgent request made a minute after the agent was built
C7_Witness ==
    /\ pc = "invoke"
    /\ iteration = 0
    /\ cur_agent = "calendar"
    /\ now = 1
    /\ messages[1].content # agents["calendar"].system_prompt

----------------------------------------------------------------------------
(* Properties of the router *)

\* trigger t occurs in message m when case is ignored
OccursIgnoringCase(t, m) ==
    \E k \in 0..(Len(m) - Len(t)) :
        \A i \in 1..Len(t) : LowerChar(m[k + i]) = LowerChar(t[i])

\* the positions, in registration order, of the sub-agents with a trigger that
\* occurs in the message
MatchingAgents ==
    {i \in 1..Len(sub_agents) :
        \E j \in 1..Len(sub_agents[i].triggers) :
            OccursIgnoringCase(sub_agents[i].triggers[j], route_in)}

FirstMatchingAgent ==
    IF MatchingAgents = {} THEN NoAgent
    ELSE sub_agents[CHOOSE i \in MatchingAgents :
                        \A j \in MatchingAgents : i <= j].name

RoutedToFirstMatch ==
    route_out # "unset" => route_out = FirstMatchingAgent

\* C8: _should_delegate returns the first sub-agent in registration order with a
\* trigger that occurs, case ignored, in the message, and none when there is no
\* such sub-agent; a call changes nothing but its result, and a second call
\* gives the result of the first.
C8_RouterFirstMatch ==
    /\ [] RoutedToFirstMatch
    /\ [][/\ UNCHANGED <<now, agents, agentVars, sub_agents, orchVars, route_in, sessionVars, mainVars>>
          /\ route_out # "unset" => route_out' = route_out]_vars

\* C8 witness: both sub-agents match a message with a capital letter, calendar
\* was registered first and is the one returned
C8_Witness ==
    /\ Len(sub_agents) = 2
    /\ sub_agents[1].name = "calendar"
    /\ MatchingAgents = {1, 2}
    /\ route_out = "calendar"
    /\ \E i \in 1..Len(route_in) : route_in[i] = "A"

----------------------------------------------------------------------------
(* Properties of the conversation state machine *)

\* the router's answer for the message given to the running chat call
Routed ==
    should_delegate(sub_agents, cur_input)

\* the OrchestrationState after the step is the one before plus one AI message
\* without ToolCalls
OneAIMessageAdded ==
    /\ Len(state'.messages) = Len(state.messages) + 1
    /\ SubSeq(state'.messages, 1, Len(state.messages)) = state.messages
    /\ state'.messages[Len(state'.messages)].role = "ai"
    /\ state'.messages[Len(state'.messages)].tool_calls = <<>>

\* C9: in the orchestrate state, when the router returns sub-agent X for the
\* turn's user message, the step adds one AI acknowledgment message, sets
\* delegated_to = X, current_task = the message text and task_complete = false,
\* invokes no model and no sub-agent, and goes to delegate_X.
C9_DelegateTransition ==
    [][(node = NodeOrchestrator /\ Routed # NoAgent) =>
          /\ OneAIMessageAdded
          /\ state'.messages[Len(state'.messages)].content
                = <<"I'll help you with that ", title(Routed),
                    " task. Let me process your request...\n\nDelegating to ",
                    title(Routed), " agent...">>
          /\ state'.delegated_to = Routed
          /\ state'.current_task = cur_input
          /\ state'.task_complete = FALSE
          /\ orch_model_calls' = 0
          /\ delegations' = <<>>
          /\ pc' = "idle"
          /\ node' = <<"delegate_", Routed>>]_vars

\* C9 witness: a message with triggers of both sub-agents was handed to gmail,
\* the one registered first
C9_Witness ==
    /\ node = <<"delegate_", "gmail">>
    /\ pc = "idle"
    /\ cur_input = DraftRequest
    /\ any_trigger_matches(calendar_triggers, lower(cur_input))
    /\ state.delegated_to = "gmail"
    /\ state.current_task = DraftRequest
    /\ turns = 2

\* the number of system messages of a history
RECURSIVE SystemMessages(_)
SystemMessages(msgs) ==
    IF msgs = <<>> THEN 0
    ELSE (IF Head(msgs).role = "system" THEN 1 ELSE 0) + SystemMessages(Tail(msgs))

\* C10: in the orchestrate state, when the router returns none, the
\* orchestrator's model is invoked once, with one system prompt followed by the
\* thread's persisted messages and the new user message; when it answers, its
\* response is added, no sub-agent is invoked, the next state is end with
\* task_complete = true and delegated_to = none, and chat returns the response.
C10_DirectAnswer ==
    /\ [][(node = NodeIdle /\ node' = NodeOrchestrator) =>
             state'.messages
                = Append(memory[cur_thread'].messages, HumanMessage(cur_input'))]_vars
    /\ [][(node = NodeOrchestrator /\ Routed = NoAgent) =>
             /\ orch_model_calls = 0
             /\ orch_model_calls' = 1
             /\ orch_model_input'
                   = <<SystemMessage(orchestrator_system_prompt(sub_agents))>>
                        \o state.messages
             /\ SystemMessages(orch_model_input') = 1
             /\ delegations' = <<>>
             /\ pc' = "idle"
             /\ node' # NodeIdle =>
                   /\ node' = NodeEnd
                   /\ OneAIMessageAdded
                   /\ state'.messages[Len(state'.messages)].content \in ModelTexts
                   /\ state'.task_complete = TRUE
                   /\ state'.delegated_to = NoAgent]_vars
    /\ [][(node = NodeEnd /\ delegations = <<>>) =>
             /\ orch_model_calls' = 1
             /\ answer' = state.messages[Len(state.messages)].content
             /\ node' = NodeIdle]_vars

\* C10 witness: the second turn of a thread was answered by the orchestrator's
\* model, which was given the first turn's messages too
C10_Witness ==
    /\ node = NodeIdle
    /\ turns = 2
    /\ delegations = <<>>
    /\ orch_model_calls = 1
    /\ answer \in ModelTexts
    /\ Len(orch_model_input) >= 4
    /\ answer = state.messages[Len(state.messages)].content

----------------------------------------------------------------------------
(* Properties of a delegated turn *)

\* the last message of the running turn's OrchestrationState
LastMessage ==
    state.messages[Len(state.messages)]

\* the turn made one process_request call and it ended that way
Delegated(outcome) ==
    /\ Len(delegations) = 1
    /\ delegations[1].outcome = outcome

\* the name the sub-agent called by the turn is registered under
Delegate ==
    sub_agents[CHOOSE i \in 1..Len(sub_agents) :
                  sub_agents[i].agent = delegations[1].agent].name

\* the text the delegate node makes of a result r of sub-agent X
CompletionText(X, r) ==
    <<title(X), " task completed:\n\n">> \o r

\* the sub-agent's history holds the request as its only user message
OnlyTheRequest ==
    /\ Len(messages) >= 2
    /\ messages[1].role = "system"
    /\ messages[2] = HumanMessage(cur_input)
    /\ \A i \in 3..Len(messages) : messages[i].role \in {"ai", "tool"}
    /\ (pc = "invoke" /\ iteration = 0) => Len(messages) = 2

\* C11: in delegate_X, process_request of sub-agent X is called once, with the
\* text of the turn's user message as the request and nothing of the earlier
\* conversation; when it returns r, an AI message "<X title-cased> task
\* completed:", a blank line and r is added, the next state is end with
\* task_complete = true, delegated_to = none and current_task = none, and chat
\* returns that text.
C11_DelegationCompletes ==
    /\ Len(delegations) <= 1
    /\ Len(node) = 2 =>
          /\ node[1] = "delegate_"
          /\ state.delegated_to = node[2]
          /\ state.current_task = cur_input
          /\ (pc = "idle") <=> (delegations = <<>>)
          /\ \A k \in 1..Len(delegations) :
                delegations[k].agent = agent_of(sub_agents, node[2])
    /\ \A k \in 1..Len(delegations) :
          delegations[k].request = cur_input
    /\ (caller = "delegate" /\ pc # "idle") =>
          /\ Len(node) = 2
          /\ cur_agent = agent_of(sub_agents, node[2])
          /\ request = cur_input
          /\ OnlyTheRequest
    /\ (node = NodeEnd /\ orch_model_calls = 0) => Len(delegations) = 1
    /\ (node = NodeEnd /\ Delegated("returned")) =>
          /\ LastMessage = AIMessage(CompletionText(Delegate, delegations[1].text), <<>>)
          /\ state.task_complete = TRUE
          /\ state.delegated_to = NoAgent
          /\ state.current_task = None
    /\ (node = NodeIdle /\ answer # None /\ Delegated("returned")) =>
          answer = CompletionText(Delegate, delegations[1].text)

\* C11 witness: the second turn of a thread was delegated to calendar, whose
\* process_request returned "Done."
C11_Witness ==
    /\ node = NodeIdle
    /\ turns = 2
    /\ turn_start # <<>>
    /\ cur_input = ScenarioA
    /\ Delegated("returned")
    /\ delegations[1].agent = "calendar"
    /\ answer = <<"Calendar", " task completed:\n\n", "Done.">>

\* the text the delegate node makes of an exception e of sub-agent X
ErrorText(X, e) ==
    <<"Error processing ", title(X), " task: ">> \o e

\* C12: when process_request of sub-agent X raises during delegate_X, nothing
\* leaves chat: an AI message "Error processing <X title-cased> task: <reason>"
\* is added and returned as the turn's answer, the next state is end, and
\* task_complete = true and delegated_to = none as after a delegation that
\* succeeded.
C12_DelegationFailureCaught ==
    /\ (caller = "delegate" /\ pc = "raised") => (Len(node) = 2 /\ chat_exc = None)
    /\ Delegated("raised") =>
          /\ chat_exc = None
          /\ node \in {NodeEnd, NodeIdle}
          /\ delegations[1].text \in ModelErrors
          /\ LastMessage = AIMessage(ErrorText(Delegate, delegations[1].text), <<>>)
          /\ state.task_complete = TRUE
          /\ state.delegated_to = NoAgent
          /\ state.current_task = None
          /\ memory[cur_thread] = state
          /\ node = NodeIdle => answer = ErrorText(Delegate, delegations[1].text)

\* C12 witness: the gmail sub-agent's model failed during the delegation and
\* chat returned the error text
C12_Witness ==
    /\ node = NodeIdle
    /\ Delegated("raised")
    /\ delegations[1].agent = "gmail"
    /\ chat_exc = None
    /\ answer = <<"Error processing ", "Gmail", " task: ", "connection refused">>

----------------------------------------------------------------------------
(* Properties of the persisted Conversation *)

\* chat has returned the turn's answer
TurnCompleted ==
    node = NodeIdle /\ answer # None

\* s is a prefix of t
IsPrefix(s, t) ==
    Len(s) <= Len(t) /\ SubSeq(t, 1, Len(s)) = s

\* the thread's persisted messages
Persisted(thread) ==
    memory[thread].messages

\* the messages the last turn added to its thread
TurnAdded ==
    SubSeq(Persisted(cur_thread), Len(turn_start) + 1, Len(Persisted(cur_thread)))

\* C13 as stated: when a turn has completed, direct or delegated, what it added
\* to its thread is the new user message followed by the turn's last AI
\* message, whose text chat returned.
C13_TurnAddsUserAndLastAI ==
    TurnCompleted =>
        /\ IsPrefix(turn_start, Persisted(cur_thread))
        /\ TurnAdded = <<HumanMessage(cur_input), AIMessage(answer, <<>>)>>

\* C13 amended: when a turn has completed, what it added to its thread is the
\* new user message followed by every AI message the turn produced: the model's
\* response in a direct turn; the acknowledgment, then the completion or error
\* message, in a delegated turn; chat returned the text of the last of them.
C13_TurnAddsUserAndAIMessages ==
    TurnCompleted =>
        /\ IsPrefix(turn_start, Persisted(cur_thread))
        /\ TurnAdded[1] = HumanMessage(cur_input)
        /\ \A i \in 2..Len(TurnAdded) :
              TurnAdded[i].role = "ai" /\ TurnAdded[i].tool_calls = <<>>
        /\ delegations = <<>> => Len(TurnAdded) = 2
        /\ delegations # <<>> =>
              /\ Len(TurnAdded) = 3
              /\ TurnAdded[2] = AIMessage(delegation_ack(Delegate), <<>>)
        /\ answer = TurnAdded[Len(TurnAdded)].content

\* C13 witness: a delegated turn completed on a thread that had a history
C13_Witness ==
    /\ TurnCompleted
    /\ turn_start # <<>>
    /\ Delegated("returned")
    /\ Len(TurnAdded) = 3
    /\ answer # TurnAdded[2].content

\* C14: at the entry of the orchestrate state of every turn current_task = none,
\* delegated_to = none and task_complete = false, whatever the turn before on
\* the thread left, a turn that did not finish included; of the thread's
\* checkpoint only the messages carry over, followed by the new user message.
C14_FreshStateEachTurn ==
    node = NodeOrchestrator =>
        /\ state.current_task = None
        /\ state.delegated_to = NoAgent
        /\ state.task_complete = FALSE
        /\ state.messages = Append(turn_start, HumanMessage(cur_input))
        /\ memory[cur_thread] = state

\* C14 witness: a turn enters orchestrate on a thread whose turn before was
\* interrupted in delegate_gmail, so its checkpoint held delegated_to = gmail
\* and the task text
C14_Witness ==
    /\ node = NodeOrchestrator
    /\ turn_start # <<>>
    /\ turn_start[Len(turn_start)] = AIMessage(delegation_ack("gmail"), <<>>)
    /\ state.delegated_to = NoAgent

\* the history a turn started from is still the beginning of its thread's history
TurnStartKept ==
    cur_thread \in Threads => IsPrefix(turn_start, Persisted(cur_thread))

\* C15: the persisted Conversation of a thread only grows at its end: every step
\* leaves the messages a thread held in place, with the same role, text and
\* ToolCalls, and the history after a turn begins with the history before it.
C15_HistoryAppendOnly ==
    /\ [] TurnStartKept
    /\ [][\A t \in Threads : IsPrefix(Persisted(t), Persisted(t)')]_vars

\* C15 witness: two turns completed on one thread, the second one delegated
C15_Witness ==
    /\ TurnCompleted
    /\ turns = 2
    /\ Len(turn_start) >= 2
    /\ Len(Persisted(cur_thread)) = Len(turn_start) + 3
    /\ Persisted(cur_thread)[1].role = "human"

----------------------------------------------------------------------------
(* The scenarios *)

\* some trigger of the list occurs in the message, case ignored
SomeTriggerOccurs(triggers, m) ==
    \E j \in 1..Len(triggers) : OccursIgnoringCase(triggers[j], m)

\* where the table of create_orchestrator_with_agents sends scenario A, and
\* which of its triggers occur in it
ScenarioA_Route ==
    should_delegate(create_orchestrator_with_agents, ScenarioA)

ScenarioA_Triggers ==
    /\ ~ SomeTriggerOccurs(gmail_triggers, ScenarioA)
    /\ OccursIgnoringCase(<<"m", "e", "e", "t", "i", "n", "g">>, ScenarioA)
    /\ OccursIgnoringCase(<<"t", "e", "a", "m", " ", "s", "t", "a", "n", "d", "u", "p">>,
                          ScenarioA)

\* C16: with the table of create_orchestrator_with_agents, no gmail trigger
\* occurs in "Create a meeting called Team Standup tomorrow at 10am for 30
\* minutes" and 'meeting' and 'team standup' do; the turn goes from orchestrate
\* to delegate_calendar and from there to end, without the orchestrator's
\* model, and when the calendar sub-agent returns the answer begins with
\* 'Calendar task completed:'.
C16_ScenarioA ==
    cur_input = ScenarioA =>
        /\ sub_agents = create_orchestrator_with_agents
        /\ ScenarioA_Triggers
        /\ ScenarioA_Route = "calendar"
        /\ orch_model_calls = 0
        /\ node \in {NodeOrchestrator, <<"delegate_", "calendar">>, NodeEnd, NodeIdle}
        /\ node = NodeOrchestrator => delegations = <<>>
        /\ \A k \in 1..Len(delegations) : delegations[k].agent = "calendar"
        /\ node = NodeEnd =>
              /\ Len(delegations) = 1
              /\ delegations[1].outcome \in {"returned", "raised"}
        /\ (node = NodeEnd /\ Delegated("returned")) =>
              SubSeq(LastMessage.content, 1, 2) = <<"Calendar", " task completed:\n\n">>
        /\ (TurnCompleted /\ Delegated("returned")) =>
              SubSeq(answer, 1, 2) = <<"Calendar", " task completed:\n\n">>

\* C16 witness: the turn of scenario A completed after the calendar sub-agent
\* returned
C16_Witness ==
    /\ cur_input = ScenarioA
    /\ TurnCompleted
    /\ Delegated("returned")
    /\ turns = 1
    /\ SubSeq(answer, 1, 2) = <<"Calendar", " task completed:\n\n">>

\* where the table of create_orchestrator_with_agents sends scenario B, and
\* whether a trigger of a sub-agent occurs in it
ScenarioB_Route ==
    should_delegate(create_orchestrator_with_agents, ScenarioB)

ScenarioB_Triggers ==
    \E i \in 1..Len(create_orchestrator_with_agents) :
        SomeTriggerOccurs(create_orchestrator_with_agents[i].triggers, ScenarioB)

\* C17: with the table of create_orchestrator_with_agents, no trigger of any
\* sub-agent occurs in "What's the capital of France?"; the router returns
\* none, the orchestrator's model is the one that answers, the turn goes from
\* orchestrate to end, and no sub-agent and no tool is invoked.
C17_ScenarioB ==
    cur_input = ScenarioB =>
        /\ sub_agents = create_orchestrator_with_agents
        /\ ~ ScenarioB_Triggers
        /\ ScenarioB_Route = NoAgent
        /\ node \in {NodeOrchestrator, NodeEnd, NodeIdle}
        /\ delegations = <<>>
        /\ pc = "idle"
        /\ model_calls = 0
        /\ tool_log = <<>>
        /\ node = NodeOrchestrator => orch_model_calls = 0
        /\ node = NodeEnd =>
              /\ orch_model_calls = 1
              /\ LastMessage.role = "ai"
              /\ LastMessage.content \in ModelTexts
              /\ LastMessage.tool_calls = <<>>
              /\ state.delegated_to = NoAgent
        /\ TurnCompleted =>
              /\ orch_model_calls = 1
              /\ answer \in ModelTexts

\* C17 witness: the turn of scenario B completed with the model's answer, on a
\* thread whose turn before was delegated
C17_Witness ==
    /\ cur_input = ScenarioB
    /\ TurnCompleted
    /\ turns = 2
    /\ Len(turn_start) = 3
    /\ answer = <<"All set.">>

----------------------------------------------------------------------------
(* Properties of the label tool inside the agent loop *)

\* two texts are equal when case is ignored
EqualIgnoringCase(a, b) ==
    /\ Len(a) = Len(b)
    /\ \A i \in 1..Len(a) : LowerChar(a[i]) = LowerChar(b[i])

\* the label is in the allowed label set, case ignored
InAllowedSet(label) ==
    \E i \in 1..Len(DEFAULT_LABELS) : EqualIgnoringCase(DEFAULT_LABELS[i], label)

\* the text names every allowed label
ListsAllowedLabels(text) ==
    \A i \in 1..Len(DEFAULT_LABELS) : contains(text, DEFAULT_LABELS[i])

\* C18: for a label that is not in the allowed set, case ignored,
\* apply_email_label returns an error text that lists the allowed labels and
\* makes no remote call; the loop appends that text as a Tool message with the
\* ToolCall's id, goes on, and invokes the model again with it in the history;
\* nothing is raised.
C18_LabelRejected ==
    /\ pc = "raised" => exc \in ModelErrors
    /\ \A k \in 1..Len(tool_log) :
          ~ InAllowedSet(tool_log[k].label) =>
              /\ tool_log[k].outcome = "returned"
              /\ SubSeq(tool_log[k].text, 1, 1) = <<"Error: '">>
              /\ ListsAllowedLabels(tool_log[k].text)
              /\ tool_log[k].remote = <<>>
              /\ \E i \in 1..Len(messages) :
                    messages[i] = ToolMessage(tool_log[k].text, tool_log[k].id)
    /\ RoundDone => AnsweredIds = ResponseIds
    /\ pc \in {"check", "tools", "returned"} =>
          model_input = SubSeq(messages, 1, LastAI(messages) - 1)
    /\ pc = "raised" => model_input = messages

\* C18 witness: 'Urgent' was refused without a remote call, the next ToolCall
\* of the same response went to Gmail, and the model was invoked again with
\* the refusal in its input
C18_Witness ==
    /\ pc = "check"
    /\ model_calls = 2
    /\ Len(tool_log) = 2
    /\ tool_log[1].label = <<"U", "r", "g", "e", "n", "t">>
    /\ tool_log[1].remote = <<>>
    /\ tool_log[2].remote = <<"labels.list", "messages.modify">>
    /\ \E i \in 1..Len(model_input) :
          model_input[i] = ToolMessage(tool_log[1].text, tool_log[1].id)

----------------------------------------------------------------------------
(* Properties of the interactive session *)

\* an Exception that is no keyboard interrupt has left the session's chat call
ChatFailed ==
    /\ session = "chat"
    /\ node = NodeIdle
    /\ chat_exc # None
    /\ chat_exc # <<"KeyboardInterrupt">>

\* what the turns completed so far persisted is still the beginning of the
\* thread's history
CompletedTurnsKept ==
    session # "off" => IsPrefix(completed, Persisted(thread_id))

\* the text is one of the exit keywords, case ignored
ExitWord(text) ==
    \E w \in {<<"e", "x", "i", "t">>, <<"q", "u", "i", "t">>, <<"b", "y", "e">>, <<"q">>} :
        EqualIgnoringCase(text, w)

\* the session ends on an exit keyword or a keyboard interrupt only
EndsOnlyOnRequest ==
    session = "ended" =>
        \/ printed[Len(printed)] = Goodbye /\ ExitWord(user_input)
        \/ printed[Len(printed)] = InterruptedGoodbye

\* C19: when an exception that is no keyboard interrupt leaves chat inside
\* start_chat, the loop goes on: it prints the error lines and is back at the
\* prompt, and the thread's persisted Conversation still begins with every
\* message of the turns completed before.
C19_SessionSurvivesFailure ==
    /\ [] CompletedTurnsKept
    /\ [] EndsOnlyOnRequest
    /\ [][ChatFailed =>
             /\ session' = "input"
             /\ printed' = printed \o
                    << <<"\nBot: Sorry, I encountered an error: ">> \o chat_exc,
                       <<"Let's continue our conversation.\n">> >>
             /\ memory' = memory
             /\ completed' = completed]_vars

\* C19 witness: the first turn of the session completed, the orchestrator's
\* model failed in the second, and the session is back at the prompt with the
\* first turn's messages persisted
C19_Witness ==
    /\ session = "input"
    /\ turns = 2
    /\ chat_exc \in ModelErrors
    /\ Len(completed) >= 2
    /\ Persisted(thread_id) = Append(completed, HumanMessage(cur_input))
    /\ printed[Len(printed)] = <<"Let's continue our conversation.\n">>

\* the text has no blank at either end
Trimmed(text) ==
    text = <<>> \/ (text[1] \notin Whitespace /\ text[Len(text)] \notin Whitespace)

\* the step reads a line whose trimmed text is kept in user_input
Reads ==
    session = "input" /\ (user_input' # user_input \/ turns' # turns)

\* C20: in start_chat a line that, trimmed and with case ignored, is 'exit',
\* 'quit', 'bye' or 'q' ends the loop without a chat call; an empty line is
\* skipped without a chat call; any other line is passed, trimmed, to
\* chat(text, thread_id) once, no line is read while chat runs, and the text
\* chat returned is printed before the loop is back at the prompt.
C20_SessionLoop ==
    /\ [] Trimmed(user_input)
    /\ [] ((user_input # None /\ ExitWord(user_input)) => session = "ended")
    /\ [][(Reads /\ ExitWord(user_input')) =>
             /\ session' = "ended"
             /\ printed' = Append(printed, Goodbye)
             /\ UNCHANGED <<turns, node, memory>>]_vars
    /\ [][(Reads /\ user_input' = <<>>) =>
             /\ session' = "input"
             /\ UNCHANGED <<turns, node, memory, printed>>]_vars
    /\ [][(Reads /\ ~ ExitWord(user_input') /\ user_input' # <<>>) =>
             /\ session' = "chat"
             /\ turns' = turns + 1
             /\ node' = NodeOrchestrator
             /\ cur_input' = user_input'
             /\ cur_thread' = thread_id]_vars
    /\ [][turns' # turns => Reads]_vars
    /\ [][session = "chat" => UNCHANGED <<user_input, turns, cur_input>>]_vars
    /\ [][(session = "chat" /\ session' = "input" /\ chat_exc = None) =>
             /\ answer # None
             /\ printed' = printed \o <<answer, <<"">> >>]_vars

\* C20 witness: a request typed with blanks around it was passed to chat
\* trimmed, its answer was printed, and then ' Exit ' ended the session
C20_Witness ==
    /\ session = "ended"
    /\ user_input = <<"E", "x", "i", "t">>
    /\ turns = 1
    /\ cur_input = ScenarioA
    /\ Len(printed) = 4
    /\ printed[2] = answer
    /\ printed[4] = Goodbye

\* the line printed last, the empty text when nothing was printed
LastPrinted ==
    IF printed = <<>> THEN <<>> ELSE printed[Len(printed)]

\* the two lines of the handler of `except Exception`, for some error text
ErrorLinesAdded ==
    /\ Len(printed') = Len(printed) + 2
    /\ SubSeq(printed', 1, Len(printed)) = printed
    /\ SubSeq(printed'[Len(printed) + 1], 1, 1) = <<"\nBot: Sorry, I encountered an error: ">>
    /\ printed'[Len(printed) + 2] = <<"Let's continue our conversation.\n">>

\* C26: start_chat terminates if and only if an input equals an exit keyword or
\* a keyboard interrupt occurs: a failure of reading the input line is caught by
\* the loop, which prints the error lines and reads again, so once the input
\* has ended and every read fails, only a keyboard interrupt ends start_chat.
C26_ReadFailureRetries ==
    /\ [] (session = "ended" =>
              \/ LastPrinted = InterruptedGoodbye
              \/ /\ stdin = "open"
                 /\ LastPrinted = Goodbye
                 /\ ExitWord(user_input))
    /\ [][(stdin = "open" /\ stdin' = "closed") =>
             /\ session = "input"
             /\ session' = "input"
             /\ ErrorLinesAdded
             /\ UNCHANGED <<user_input, turns, memory>>]_vars
    /\ [][(session = "input" /\ stdin = "closed") =>
             \/ /\ session' = "ended"
                /\ printed' = Append(printed, InterruptedGoodbye)
             \/ /\ session' = "input"
                /\ ErrorLinesAdded
                /\ UNCHANGED <<user_input, turns, memory, stdin>>]_vars
    /\ [][(session = "input" /\ session' = "input" /\ printed' # printed) =>
             /\ ErrorLinesAdded
             /\ UNCHANGED <<user_input, turns, memory>>]_vars
    /\ [][(printed' # printed /\ printed'[Len(printed')] \in {Goodbye, InterruptedGoodbye}) =>
             session' = "ended"]_vars

\* C26 witness: after one answered turn the input ended; input() has failed
\* twice, each failure was reported, and the loop is at the prompt again
C26_Witness ==
    /\ session = "input"
    /\ stdin = "closed"
    /\ turns = 1
    /\ answer # None
    /\ Len(printed) = 7
    /\ printed[4] = <<"\nBot: Sorry, I encountered an error: ">> \o EOFError
    /\ printed[6] = <<"\nBot: Sorry, I encountered an error: ">> \o EOFError
    /\ LastPrinted = <<"Let's continue our conversation.\n">>

----------------------------------------------------------------------------
(* Properties of the tool registry and of the tools *)

\* the names of a registry are pairwise different
UniqueNames(tools) ==
    \A i, j \in 1..Len(tools) : tools[i] = tools[j] => i = j

\* C21: registering a tool whose name a registered tool already has is rejected
\* and leaves the registry unchanged, so after any sequence of registrations the
\* tool names of every registry are pairwise different.
C21_ToolNamesUnique ==
    \A a \in AgentNames : UniqueNames(agents[a].tools)

\* the piece occurs in the text
Holds(text, piece) ==
    \E i \in 1..(Len(text) - Len(piece) + 1) :
        SubSeq(text, i, i + Len(piece) - 1) = piece

\* the text is one of those _handle_error builds
IsErrorText(text) ==
    \/ SubSeq(text, 1, 1) = <<"Error in ">>
    \/ SubSeq(text, 1, 1) = <<"API Error in ">>
    \/ SubSeq(text, 1, 1) = <<"Error: Resource not found in ">>
    \/ SubSeq(text, 1, 1) = <<"Error: Permission denied for ">>

\* C22: for an email id whose fetch from the remote service succeeds,
\* get_email_content returns a text that holds the email's id, sender,
\* recipient, subject and date, and the body when include_body is true; it is
\* no error text.
C22_GetEmailReturnsContent ==
    \A k \in 1..Len(tool_log) :
        tool_log[k].gmail[1] = "fetched" =>
            LET m == tool_log[k].gmail[2]
                text == tool_log[k].text
            IN  /\ ~ IsErrorText(text)
                /\ Holds(text, m.id)
                /\ Holds(text, m.from)
                /\ Holds(text, m.to)
                /\ Holds(text, m.subject)
                /\ Holds(text, m.date)
                /\ tool_log[k].include_body => Holds(text, m.body)

\* the ToolCalls of the current response that use a name of the agent's prompt
PromptedCalls ==
    {j \in 1..Len(response.tool_calls) :
        response.tool_calls[j].name \in prompt_tool_names(cur_agent)}

\* C27: every tool name an agent's system prompt tells the model to use
\* resolves to a tool registered in that agent, so a ToolCall of a model that
\* follows the prompt is resolved and invoked by the loop, never skipped.
C27_PromptedToolsResolve ==
    /\ \A j \in PromptedCalls :
          \E i \in 1..Len(agents[cur_agent].tools) :
              agents[cur_agent].tools[i] = response.tool_calls[j].name
    /\ RoundDone =>
          \A j \in PromptedCalls :
              \E k \in 1..Len(tool_log) : tool_log[k].id = response.tool_calls[j].id

----------------------------------------------------------------------------
(* Properties of the start-up *)

\* the orchestrator object exists
OrchestratorCreated ==
    \/ sub_agents # <<>>
    \/ main_pc \in {"orchestrator created", "serving"}

\* the names in the sub-agent table
TableNames(table) ==
    {table[i].name : i \in 1..Len(table)}

\* C23: start-up fails closed on credentials: when obtaining the credential of
\* the Gmail or of the Calendar scope fails, run_chat_bot raises before any
\* orchestrator is created, so start_chat never runs, and no session is served
\* with only a subset of the sub-agents.
C23_StartupFailsClosed ==
    /\ main_exc # None =>
          /\ main_pc = "raised"
          /\ ~ OrchestratorCreated
          /\ session = "off"
    /\ OrchestratorCreated =>
          /\ main_exc = None
          /\ \A a \in AgentNames : agents[a] = create_agent(a, now)
          /\ main_pc # "calendar created" => TableNames(sub_agents) = AgentNames
    /\ session # "off" => OrchestratorCreated

\* C23 witness: the Gmail agent was created from a valid token.json, then the
\* Calendar scope had neither a usable token nor credentials.json, and
\* run_chat_bot raised with no orchestrator and no session
C23_Witness ==
    /\ main_pc = "raised"
    /\ main_exc = <<"FileNotFoundError">>
    /\ agents["gmail"] = create_agent("gmail", now)
    /\ agents["calendar"] = NotCreated
    /\ files["credentials.json"] = "absent"
    /\ sub_agents = <<>>
    /\ session = "off"

----------------------------------------------------------------------------
(* Properties of the sub-agent table *)

\* C24: after any sequence of add_sub_agent and chat calls, every sub-agent name
\* the router can return has a delegate node in the compiled graph: the table is
\* fixed once the graph has been built, so a sub-agent registered after the
\* first chat never makes the orchestrate state select a node that does not
\* exist.
C24_RoutedNamesHaveNodes ==
    /\ graph.built =>
          \A i \in 1..Len(sub_agents) : <<"delegate_", sub_agents[i].name>> \in graph.nodes
    /\ node = NodeOrchestrator /\ delegate_target(state.messages, sub_agents) # NoAgent =>
          <<"delegate_", delegate_target(state.messages, sub_agents)>> \in graph.nodes
    /\ chat_exc # <<"KeyError">>

\* the turn that fails: the graph was built without 'trivia', the router named
\* it, and chat raised KeyError
LateSubAgentTurnFails ==
    /\ chat_exc = <<"KeyError">>
    /\ state.delegated_to = "trivia"
    /\ <<"delegate_", "trivia">> \notin graph.nodes

----------------------------------------------------------------------------
(* Properties of the threads *)

\* what the orchestrator's model was given, without the system prompt put first
ModelHistory ==
    Tail(orch_model_input)

\* C25: conversations are isolated per thread identifier: a chat call on one
\* thread leaves the persisted history of every other thread unchanged, and the
\* history given to the orchestrator's model during a turn holds the messages of
\* the turn's own thread only: what the thread had persisted, then the new user
\* message.
C25_ThreadsIsolated ==
    /\ [] (orch_model_calls > 0 =>
              /\ orch_model_input[1].role = "system"
              /\ ModelHistory = turn_start \o <<HumanMessage(cur_input)>>
              /\ IsPrefix(ModelHistory, Persisted(cur_thread)))
    /\ [][\A t \in Threads : t # cur_thread' => Persisted(t)' = Persisted(t)]_vars

\* C25 witness: the first turn ran on 'default', the second on 'other': the
\* model of the second turn was given the one message of 'other', while
\* 'default' keeps the two messages of the first turn
C25_Witness ==
    /\ turns = 2
    /\ cur_thread = "other"
    /\ node = NodeEnd
    /\ orch_model_calls = 1
    /\ Len(orch_model_input) = 2
    /\ Len(Persisted("default")) >= 2
    /\ Persisted("default")[1] # Persisted("other")[1]

====
